---- MODULE Spec2Model ----
(***************************************************************************)
(* Model of the imageSearch AI feature router: circuit breaker, rate       *)
(* limiter, cloud caption call, caption router, ingestion paths and the    *)
(* queue workers.  Times are whole seconds, money is in units of 0.001 USD *)
(* (the OpenRouter admission estimate), classifier scores are tenths and   *)
(* confidences are hundredths.                                             *)
(***************************************************************************)
EXTENDS Integers, Sequences, FiniteSets, TLC

VARIABLES
    now,            \* time.time(), whole seconds
    ticks,          \* number of clock advances so far (bounds the run)
    cb,             \* the process-wide CircuitBreaker
    lastCall,       \* history: the last CircuitBreaker method call and the state it found
    closedFailures, \* history: record_failure calls counted since the breaker was last
                    \* CLOSED with failure_count = 0
    provider,       \* the cloud provider CloudProviderFactory.create() yields
    rl,             \* the process-wide RateLimiter
    call,           \* per task: where its caption_cloud call stands
    halfOpenAdmitted, \* history: cloud requests sent to the provider since the breaker
                    \* last entered HALF_OPEN
    cache,          \* the Redis caption cache: image -> entry under caption:hash:<sha256>
    routed,         \* the last route_caption_request call: its inputs and its decision
    ingested,       \* the POST /images request being handled, and where it stands
    queue,          \* the Redis list ingestion:jobs, head = left end
    worker,         \* per worker task: its place in _worker_loop, its job, and history
    slots,          \* ingestion:result:<job_id> -> status
    running,        \* BaseWorker.running
    nextJob,        \* number of jobs enqueued so far (job ids are 1, 2, ...)
    handed,         \* history: the job ids BRPOP has handed out, in that order
    closed,         \* BaseWorker.start has closed the Redis connection and returned
    rows,           \* the embed store: image id -> the caption row upserted for it
    allowTimes,     \* history: when RateLimiter.can_proceed last answered allow
    lastRL,         \* history: the last RateLimiter method call and the limiter it found
    lastCloud,      \* history: the last step of a caption_cloud call and what it found
    stored,         \* history: per image, the stores not yet expired; and the last lookup
    earlier,        \* history: one earlier route_caption_request call that returned
    vectorBackend,  \* VECTOR_BACKEND: which vector store get_vector_store builds
    docs,           \* the vector store's image rows (points): owner, visibility, deleted_at
    found,          \* the last GET /search request and its response
    answered,       \* the image-endpoint request being answered, and its response
    removed,        \* history: images whose DELETE succeeded, with no upsert since
    classified,     \* the last ComplexityClassifier.classify call: its text and result
    polled          \* history: per job, what GET /jobs/{job_id} reported and whether
                    \* the job's result slot has expired

vars == <<now, ticks, cb, lastCall, closedFailures, provider, rl, call,
          halfOpenAdmitted, cache, routed, ingested, queue, worker, slots, running,
          nextJob, handed, closed,
          rows, allowTimes, lastRL, lastCloud, stored, earlier, vectorBackend, docs,
          found, answered, removed, classified, polled>>

(***************************************************************************)
(* Bounds and configuration                                                *)
(***************************************************************************)
\* time.time() when the process starts: any positive wall-clock reading
StartTime == 1000
\* clock advances explored in one run
MaxTicks == 4
\* CLOUD_CIRCUIT_BREAKER_THRESHOLD as configured for the model (default 5)
FailureThreshold == 3
\* CLOUD_CIRCUIT_BREAKER_TIMEOUT_SECONDS as configured for the model (default 60)
TimeoutSeconds == 2
\* CircuitBreaker(half_open_max_calls=1)
HalfOpenMaxCalls == 1
\* sliding per-minute window of the rate limiter
MinuteWindow == 60
\* daily window of the rate limiter
DayWindow == 86400

\* concurrent tasks (requests or worker coroutines) sharing breaker and limiter
NumProcs == 2
\* CLOUD_MAX_REQUESTS_PER_MINUTE as configured for the model (default 60)
MaxPerMinute == 2
\* CLOUD_MAX_REQUESTS_PER_DAY as configured for the model (default 10000)
MaxPerDay == 3
\* CLOUD_DAILY_BUDGET_USD as configured for the model, in admission estimates of
\* the provider in use (default 10 USD)
BudgetRequests == 3
\* OpenRouterProvider.caption: estimated_cost = 0.001 USD, in micro-USD
OpenRouterEstimate == 1000
\* MockCloudProvider.caption: estimated_cost = 0.000001 USD, in micro-USD
MockEstimate == 1
\* MockCloudProvider.calculate_cost: max(0.000001, round(~1.03e-7, 6)), in micro-USD
MockCost == 1

\* distinct image contents (distinct SHA-256 digests)
NumImages == 2
\* jobs enqueued in a run
MaxJobs == 2
\* SemanticCache.CACHE_TTL, in seconds
CACHE_TTL == 3600
\* stores that are alive at the same time
MaxStores == 2
\* clock steps between cache operations
MaxCacheTicks == 2
\* clock steps while one caller makes its cloud calls
MaxCallTicks == 3
\* clock steps between direct calls of the limiter's methods
MaxLimiterTicks == 2
\* clock steps while concurrent callers make their cloud calls
MaxCloudTicks == 2
\* times the breaker's timeout elapses while probes are watched
MaxProbeTicks == 1
\* longest text hint, in whitespace-separated tokens
MaxTokens == 6
\* router: edge_conf > 0.8, in hundredths
EdgeConfThreshold == 80
\* router: complexity_score > 0.7, in tenths
ComplexityThreshold == 7
\* router: latency_budget_ms < 200
LowLatencyBudgetMs == 200
\* classifier: len(tokens) <= 5
ShortTokenCount == 5

Procs == 1..NumProcs
Images == 1..NumImages

\* Python None for a timestamp field
None == -1
\* Python truthiness of an Optional[float]
Truthy(x) == x /= None /\ x /= 0

\* the amounts by which the clock advances between two steps
TickSteps == {1, MinuteWindow - 1, DayWindow}

(***************************************************************************)
(* CircuitBreaker                                                          *)
(***************************************************************************)
CLOSED == "closed"
OPEN == "open"
HALF_OPEN == "half_open"
CircuitState == {CLOSED, OPEN, HALF_OPEN}

\* CircuitBreaker.__init__ (last_failure_time, which is written by record_failure and
\* read only by get_stats, is left out)
NewCircuitBreaker ==
    [state |-> CLOSED, failure_count |-> 0, success_count |-> 0,
     opened_at |-> None, half_open_calls |-> 0]

\* _transition_to_open
TransitionToOpen(b, t) == [b EXCEPT !.state = OPEN, !.opened_at = t]

\* _transition_to_half_open
TransitionToHalfOpen(b) ==
    [b EXCEPT !.state = HALF_OPEN, !.half_open_calls = 0, !.success_count = 0]

\* _transition_to_closed
TransitionToClosed(b) ==
    [b EXCEPT !.state = CLOSED, !.failure_count = 0, !.success_count = 0,
              !.half_open_calls = 0, !.opened_at = None]

\* mutant of CanProceedCB: the OPEN timeout test uses > instead of >=
CanProceedCB_StrictTimeout(b, t) ==
    CASE b.state = CLOSED -> [cb |-> b, allow |-> TRUE]
      [] b.state = OPEN ->
            IF Truthy(b.opened_at) /\ (t - b.opened_at) > TimeoutSeconds
            THEN [cb |-> TransitionToHalfOpen(b), allow |-> TRUE]
            ELSE [cb |-> b, allow |-> FALSE]
      [] b.state = HALF_OPEN ->
            IF b.half_open_calls < HalfOpenMaxCalls
            THEN [cb |-> [b EXCEPT !.half_open_calls = @ + 1], allow |-> TRUE]
            ELSE [cb |-> b, allow |-> FALSE]

\* can_proceed: the new breaker state and the answer
CanProceedCB(b, t) ==
    CASE b.state = CLOSED -> [cb |-> b, allow |-> TRUE]
      [] b.state = OPEN ->
            IF Truthy(b.opened_at) /\ (t - b.opened_at) >= TimeoutSeconds
            THEN [cb |-> TransitionToHalfOpen(b), allow |-> TRUE]
            ELSE [cb |-> b, allow |-> FALSE]
      [] b.state = HALF_OPEN ->
            IF b.half_open_calls < HalfOpenMaxCalls
            THEN [cb |-> [b EXCEPT !.half_open_calls = @ + 1], allow |-> TRUE]
            ELSE [cb |-> b, allow |-> FALSE]

\* mutant of RecordSuccessCB: a success in HALF_OPEN keeps the circuit half open
RecordSuccessCB_NoClose(b) ==
    CASE b.state = CLOSED ->
            IF b.failure_count > 0 THEN [b EXCEPT !.failure_count = 0] ELSE b
      [] b.state = HALF_OPEN -> [b EXCEPT !.success_count = @ + 1]
      [] OTHER -> b

\* record_success
RecordSuccessCB(b) ==
    CASE b.state = CLOSED ->
            IF b.failure_count > 0 THEN [b EXCEPT !.failure_count = 0] ELSE b
      [] b.state = HALF_OPEN ->
            TransitionToClosed([b EXCEPT !.success_count = @ + 1])
      [] OTHER -> b

\* mutant of RecordFailureCB: the threshold test uses > instead of >=
RecordFailureCB_OffByOne(b, t) ==
    LET b1 == b IN
    CASE b1.state = CLOSED ->
            LET b2 == [b1 EXCEPT !.failure_count = @ + 1] IN
            IF b2.failure_count > FailureThreshold
            THEN TransitionToOpen(b2, t) ELSE b2
      [] b1.state = HALF_OPEN -> TransitionToOpen(b1, t)
      [] OTHER -> b1

\* mutant of RecordFailureCB: a failure reported while OPEN restarts the timeout
RecordFailureCB_RestartsTimer(b, t) ==
    CASE b.state = CLOSED ->
            LET b2 == [b EXCEPT !.failure_count = @ + 1] IN
            IF b2.failure_count >= FailureThreshold
            THEN TransitionToOpen(b2, t) ELSE b2
      [] b.state = HALF_OPEN -> TransitionToOpen(b, t)
      [] OTHER -> TransitionToOpen(b, t)

\* record_failure
RecordFailureCB(b, t) ==
    LET b1 == b IN
    CASE b1.state = CLOSED ->
            LET b2 == [b1 EXCEPT !.failure_count = @ + 1] IN
            IF b2.failure_count >= FailureThreshold
            THEN TransitionToOpen(b2, t) ELSE b2
      [] b1.state = HALF_OPEN -> TransitionToOpen(b1, t)
      [] OTHER -> b1

\* reset
ResetCB(b) == TransitionToClosed(b)

(***************************************************************************)
(* RateLimiter                                                             *)
(***************************************************************************)
\* RateLimiter.__init__ with the configured limits, constructed at time t.
\* daily_requests is kept as its length: the code only ever reads len() of it.
NewRateLimiter(budget, t) ==
    [max_per_minute |-> MaxPerMinute, max_per_day |-> MaxPerDay,
     daily_budget_usd |-> budget,
     minute_requests |-> <<>>, daily_requests |-> 0,
     daily_cost |-> 0, last_reset |-> t]

\* _reset_daily_if_needed
ResetDailyIfNeeded(r, t) ==
    IF t - r.last_reset > DayWindow
    THEN [r EXCEPT !.daily_requests = 0, !.daily_cost = 0, !.last_reset = t]
    ELSE r

\* the list comprehension that keeps the timestamps of the last minute
PruneMinute(r, t) ==
    [r EXCEPT !.minute_requests = SelectSeq(@, LAMBDA x : t - x < MinuteWindow)]

\* mutant of CanProceedRL: an allowed request is entered in the minute window at once
CanProceedRL_Reserving(r, t, estimated_cost_usd) ==
    LET r1 == ResetDailyIfNeeded(r, t) IN
    IF r1.daily_cost + estimated_cost_usd > r1.daily_budget_usd
    THEN [rl |-> r1, allow |-> FALSE, reason |-> "budget"]
    ELSE LET r2 == PruneMinute(r1, t) IN
         IF Len(r2.minute_requests) >= r2.max_per_minute
         THEN [rl |-> r2, allow |-> FALSE, reason |-> "per_minute"]
         ELSE IF r2.daily_requests >= r2.max_per_day
              THEN [rl |-> r2, allow |-> FALSE, reason |-> "per_day"]
              ELSE [rl |-> [r2 EXCEPT !.minute_requests = Append(@, t)],
                    allow |-> TRUE, reason |-> "none"]

\* RateLimiter.can_proceed: the new limiter state, the answer and the block reason
CanProceedRL(r, t, estimated_cost_usd) ==
    LET r1 == ResetDailyIfNeeded(r, t) IN
    IF r1.daily_cost + estimated_cost_usd > r1.daily_budget_usd
    THEN [rl |-> r1, allow |-> FALSE, reason |-> "budget"]
    ELSE LET r2 == PruneMinute(r1, t) IN
         IF Len(r2.minute_requests) >= r2.max_per_minute
         THEN [rl |-> r2, allow |-> FALSE, reason |-> "per_minute"]
         ELSE IF r2.daily_requests >= r2.max_per_day
              THEN [rl |-> r2, allow |-> FALSE, reason |-> "per_day"]
              ELSE [rl |-> r2, allow |-> TRUE, reason |-> "none"]

\* RateLimiter.record_request followed by _update_metrics (which prunes the minute window)
RecordRequestRL(r, t, cost_usd) ==
    PruneMinute([r EXCEPT !.minute_requests = Append(@, t),
                          !.daily_requests = @ + 1,
                          !.daily_cost = @ + cost_usd], t)

(***************************************************************************)
(* The cloud caption call: CaptionerClient.caption_cloud around the        *)
(* provider's caption().  It suspends once, at the provider's network call *)
(* (OpenRouter) or simulated latency (mock): everything before is one      *)
(* step, everything after is another.                                      *)
(***************************************************************************)
Providers == {"mock", "openrouter", "unavailable"}

\* estimated_cost in the provider's caption()
EstimateOf(prov) == IF prov = "openrouter" THEN OpenRouterEstimate ELSE MockEstimate

\* actual costs a completed provider call can report
CostsOf(prov) ==
    IF prov = "openrouter"
    THEN {0, OpenRouterEstimate, 2 * OpenRouterEstimate + OpenRouterEstimate \div 2}
    ELSE {MockCost}

\* whether the provider call can end in an exception after it was sent: OpenRouter's
\* HTTP call (timeout, network, status), and whatever raises inside the mock's try block
CanFail(prov) == prov \in {"openrouter", "mock"}

\* caption_cloud up to the provider's suspension point: breaker check, provider
\* lookup, the provider's own admission checks, and record_failure when one of
\* them raises.  verdict "sent" means the request is now in flight.
CloudAdmission(b, r, prov, t) ==
    LET a0 == CanProceedCB(b, t) IN
    IF ~a0.allow
    THEN [cb |-> a0.cb, rl |-> r, verdict |-> "breaker_refused"]
    ELSE IF prov = "unavailable"
    THEN [cb |-> a0.cb, rl |-> r, verdict |-> "no_provider"]
    ELSE LET a1 == IF prov = "mock" THEN CanProceedCB(a0.cb, t)
                                     ELSE [cb |-> a0.cb, allow |-> TRUE] IN
         IF ~a1.allow
         THEN [cb |-> RecordFailureCB(a1.cb, t), rl |-> r,
               verdict |-> "provider_breaker_refused"]
         ELSE LET a2 == CanProceedRL(r, t, EstimateOf(prov)) IN
              IF ~a2.allow
              THEN [cb |-> RecordFailureCB(a1.cb, t), rl |-> a2.rl,
                    verdict |-> "limiter_refused"]
              ELSE [cb |-> a1.cb, rl |-> a2.rl, verdict |-> "sent"]

\* mutant of CloudCompletion: a failed provider call is recorded with the limiter too
CloudCompletion_RecordAlways(b, r, prov, t, ok, cost) ==
    IF ok
    THEN [cb |-> IF prov = "mock" THEN RecordSuccessCB(RecordSuccessCB(b))
                                  ELSE RecordSuccessCB(b),
          rl |-> RecordRequestRL(r, t, cost), outcome |-> "success"]
    ELSE [cb |-> IF prov = "mock" THEN RecordFailureCB(RecordFailureCB(b, t), t)
                                  ELSE RecordFailureCB(b, t),
          rl |-> RecordRequestRL(r, t, 0), outcome |-> "failed"]

\* mutant of CloudCompletion: a provider call that returns is not reported to the
\* breaker
CloudCompletion_SuccessUnrecorded(b, r, prov, t, ok, cost) ==
    IF ok
    THEN [cb |-> b, rl |-> RecordRequestRL(r, t, cost), outcome |-> "success"]
    ELSE [cb |-> IF prov = "mock" THEN RecordFailureCB(RecordFailureCB(b, t), t)
                                  ELSE RecordFailureCB(b, t),
          rl |-> r, outcome |-> "failed"]

\* the rest of caption_cloud once the provider call returns (ok) or raises
CloudCompletion(b, r, prov, t, ok, cost) ==
    IF ok
    THEN [cb |-> IF prov = "mock" THEN RecordSuccessCB(RecordSuccessCB(b))
                                  ELSE RecordSuccessCB(b),
          rl |-> RecordRequestRL(r, t, cost), outcome |-> "success"]
    ELSE [cb |-> IF prov = "mock" THEN RecordFailureCB(RecordFailureCB(b, t), t)
                                  ELSE RecordFailureCB(b, t),
          rl |-> r, outcome |-> "failed"]

\* history: the times of the latest max_per_minute + 1 allow answers of the limiter;
\* a request is sent exactly when the limiter's can_proceed answered allow
AllowsAfter(times, t) ==
    LET a == Append(times, t) IN
    IF Len(a) > MaxPerMinute + 1 THEN Tail(a) ELSE a

\* history: requests sent to the provider in the current HALF_OPEN period
ProbesAfter(before, after, sent) ==
    IF after.state /= HALF_OPEN THEN 0
    ELSE (IF before.state = HALF_OPEN THEN halfOpenAdmitted ELSE 0)
         + (IF sent THEN 1 ELSE 0)

(***************************************************************************)
(* ComplexityClassifier.  A text is a sequence of pieces: a piece is a     *)
(* word or one whitespace character.                                       *)
(***************************************************************************)
Space == " "
WordPieces == {"dog", "mood", "Mood", "moody"}

ABSTRACT_INDICATORS ==
    {"atmosphere", "mood", "feeling", "reminiscent", "style", "aesthetic",
     "vibe", "essence", "context", "emotional", "abstract", "surreal"}

\* str.lower() on one piece
Lower(w) == IF w = "Mood" THEN "mood" ELSE w

\* str.split(): the maximal runs of non-whitespace pieces, each run a token
RECURSIVE SplitFrom(_, _, _)
SplitFrom(text, i, cur) ==
    IF i > Len(text)
    THEN IF cur = <<>> THEN <<>> ELSE <<cur>>
    ELSE IF text[i] = Space
         THEN (IF cur = <<>> THEN <<>> ELSE <<cur>>) \o SplitFrom(text, i + 1, <<>>)
         ELSE SplitFrom(text, i + 1, Append(cur, text[i]))

\* text.lower().split()
Tokens(text) == SplitFrom([i \in 1..Len(text) |-> Lower(text[i])], 1, <<>>)

\* t in ABSTRACT_INDICATORS: a token glued from several words is none of the indicators
IsAbstract(tok) == Len(tok) = 1 /\ tok[1] \in ABSTRACT_INDICATORS

\* mutant of Classify: the short-caption test ignores abstract terms
Classify_ShortFirst(text) ==
    IF text = <<>> THEN [level |-> "simple", score |-> 0]
    ELSE LET tokens == Tokens(text)
             abstract_count == Cardinality({i \in 1..Len(tokens) : IsAbstract(tokens[i])})
         IN IF Len(tokens) <= ShortTokenCount
            THEN [level |-> "simple", score |-> 2]
            ELSE IF abstract_count > 0
                 THEN [level |-> "complex", score |-> 8]
                 ELSE [level |-> "moderate", score |-> 5]

\* ComplexityClassifier.classify (scores in tenths)
Classify(text) ==
    IF text = <<>> THEN [level |-> "simple", score |-> 0]
    ELSE LET tokens == Tokens(text)
             abstract_count == Cardinality({i \in 1..Len(tokens) : IsAbstract(tokens[i])})
         IN IF Len(tokens) <= ShortTokenCount /\ abstract_count = 0
            THEN [level |-> "simple", score |-> 2]
            ELSE IF abstract_count > 0
                 THEN [level |-> "complex", score |-> 8]
                 ELSE [level |-> "moderate", score |-> 5]

(***************************************************************************)
(* Inputs of a caption request                                             *)
(***************************************************************************)
\* text_hint: Optional[str]
NoHint == [given |-> FALSE, text |-> <<>>]
Hint(text) == [given |-> TRUE, text |-> text]
\* Python truthiness of text_hint: given and not the empty string
HintTruthy(h) == h.given /\ h.text /= <<>>

\* n words separated by single spaces, all "dog" except word k (if 1 <= k <= n), which is w
Sentence(n, k, w) ==
    [i \in 1..(IF n = 0 THEN 0 ELSE 2 * n - 1) |->
        IF i % 2 = 0 THEN Space ELSE IF (i + 1) \div 2 = k THEN w ELSE "dog"]

HintTexts ==
    {Sentence(n, k, w) : n \in 0..MaxTokens, k \in 0..MaxTokens, w \in WordPieces}
    \cup {<<Space>>, <<Space, Space>>, <<Space, "Mood", Space>>, <<"dog", "mood">>}

Hints == {NoHint} \cup {Hint(t) : t \in HintTexts}

\* client_confidence: Optional[float], in hundredths
Confidences == {None, 0, EdgeConfThreshold, EdgeConfThreshold + 1, 100}
\* `x or d` on an Optional[float]
OrElse(x, d) == IF Truthy(x) THEN x ELSE d

\* latency_budget_ms: the sync default 600, the job default 2000, and configured values
\* around the router's threshold
Budgets == {LowLatencyBudgetMs - 1, LowLatencyBudgetMs, 600, 2000}

(***************************************************************************)
(* SemanticCache (routing/tiers/cache_tier.py, the class the router uses)  *)
(***************************************************************************)
\* a caption record as ingest_image stores it: {"caption", "confidence", "origin"}
CaptionRec(c, conf, o) == [caption |-> c, confidence |-> conf, origin |-> o]
\* what lookup hands the router: None (hit = FALSE) or the decoded record
Miss == [hit |-> FALSE, rec |-> CaptionRec("", 0, "none")]
Entry(rec) == [hit |-> TRUE, rec |-> rec]
\* the captions the cloud provider returns
CloudCaptions == {"cloud caption A", "cloud caption B"}
\* the records ingest_image stores after a cloud success
StoredRecords == {CaptionRec(c, 100, "cloud") : c \in CloudCaptions}

\* json.dumps of a record: the key/value pairs in insertion order
JsonDumps(rec) ==
    <<<<"caption", rec.caption>>, <<"confidence", rec.confidence>>,
      <<"origin", rec.origin>>>>
\* json.loads of such a value
JsonLoads(data) ==
    [caption |-> data[1][2], confidence |-> data[2][2], origin |-> data[3][2]]
\* GET on a key Redis does not hold
NoValue == <<>>

\* mutant of CacheStore: a key that is already set keeps its value
CacheStore_KeepFirst(c, img, rec) ==
    IF c[img] /= NoValue THEN c ELSE [c EXCEPT ![img] = <<<<"caption", rec.caption>>,
                                                         <<"confidence", rec.confidence>>,
                                                         <<"origin", rec.origin>>>>]

\* SemanticCache.lookup when Redis answers: json.loads of the stored value, or None
CacheLookup(c, img) ==
    IF c[img] /= NoValue THEN Entry(JsonLoads(c[img])) ELSE Miss
\* SemanticCache.store: SETEX caption:hash:<sha256(img)>
CacheStore(c, img, rec) == [c EXCEPT ![img] = JsonDumps(rec)]

(***************************************************************************)
(* AIFeatureRouter.route_caption_request                                   *)
(***************************************************************************)
Decision(tier, reason, conf, budget, fallback, cached, complexity) ==
    [tier |-> tier, reason |-> reason, confidence |-> conf,
     latency_budget_ms |-> budget, fallback_chain |-> fallback,
     cached_result |-> cached, complexity |-> complexity]

NoDecision == Decision("none", "none", 0, 0, <<>>, Miss, None)

\* steps 1 and 2 of the router, reached on a cache miss, with the three thresholds the
\* code compares against as parameters
RouteWith(hint, conf, budget, edgeMin, scoreMin, budgetMin) ==
    LET complexity == IF HintTruthy(hint) THEN Classify(hint.text)
                      ELSE [level |-> "none", score |-> 10]
        edge_conf == OrElse(conf, 0)
    IN IF HintTruthy(hint) /\ edge_conf > edgeMin /\ complexity.level = "simple"
       THEN Decision("edge", "edge_accepted", edge_conf, budget, <<"local">>, Miss,
                     complexity.score)
       ELSE IF complexity.score > scoreMin
            THEN Decision("cloud", "high_complexity", 100, budget, <<"local">>, Miss,
                          complexity.score)
            ELSE IF budget < budgetMin
                 THEN Decision("local", "low_latency_budget", 100, budget, <<"cloud">>,
                               Miss, complexity.score)
                 ELSE Decision("local", "default_local", 100, budget, <<"cloud">>,
                               Miss, complexity.score)

\* mutant of RouteOnMiss: edge_conf >= 0.8 accepts the edge caption
RouteOnMiss_EdgeAtThreshold(hint, conf, budget) ==
    RouteWith(hint, conf, budget, EdgeConfThreshold - 1, ComplexityThreshold,
              LowLatencyBudgetMs)

\* mutant of RouteOnMiss: only a score above 0.8 is pushed to cloud
RouteOnMiss_ScoreAboveEight(hint, conf, budget) ==
    RouteWith(hint, conf, budget, EdgeConfThreshold, ComplexityThreshold + 1,
              LowLatencyBudgetMs)

\* mutant of RouteOnMiss: a budget of exactly 200 ms counts as low
RouteOnMiss_BudgetInclusive(hint, conf, budget) ==
    RouteWith(hint, conf, budget, EdgeConfThreshold, ComplexityThreshold,
              LowLatencyBudgetMs + 1)

\* 1. Analyze Edge Input, 2. Route based on complexity + SLO
RouteOnMiss(hint, conf, budget) ==
    RouteWith(hint, conf, budget, EdgeConfThreshold, ComplexityThreshold,
              LowLatencyBudgetMs)

\* mutant of RouteDecision: the edge hint is examined before the cache
RouteDecision_EdgeBeforeCache(cached, hint, conf, budget) ==
    LET d == RouteOnMiss(hint, conf, budget) IN
    IF d.tier = "edge" THEN d
    ELSE IF cached.hit
         THEN Decision("cache", "cache_hit", 100, budget, <<>>, cached, None)
         ELSE d

\* route_caption_request, given what cache.lookup returned
RouteDecision(cached, hint, conf, budget) ==
    IF cached.hit
    THEN Decision("cache", "cache_hit", 100, budget, <<>>, cached, None)
    ELSE RouteOnMiss(hint, conf, budget)

(***************************************************************************)
(* CaptionerClient and the tier execution of ingest_image                  *)
(***************************************************************************)
\* what the provider does with one request: it raises, or returns a caption at a cost
NoOutcome == [ok |-> FALSE, cost |-> 0, text |-> ""]
CloudOutcomes(prov) ==
    {[ok |-> TRUE, cost |-> c, text |-> t] : c \in CostsOf(prov), t \in CloudCaptions}
    \cup (IF CanFail(prov) THEN {NoOutcome} ELSE {})

\* what caption_cloud returns after the provider call ended as `out`, with the breaker
\* and limiter it leaves; caption "" stands for None
CloudReturn(c, out) ==
    [cb |-> c.cb, rl |-> c.rl, caption |-> IF out.ok THEN out.text ELSE "",
     verdict |-> c.outcome]
\* caption_cloud after its admission checks
CloudAfter(adm, prov, t, out) ==
    IF adm.verdict /= "sent"
    THEN [cb |-> adm.cb, rl |-> adm.rl, caption |-> "", verdict |-> adm.verdict]
    ELSE CloudReturn(CloudCompletion(adm.cb, adm.rl, prov, t, out.ok, out.cost), out)
\* caption_cloud run to completion; verdict tells how the call ended (a refusal, no
\* provider, success or failed)
CaptionCloud(b, r, prov, t, out) == CloudAfter(CloudAdmission(b, r, prov, t), prov, t, out)

\* the caption BLIP decodes, and its length in characters
LocalCaption == [text |-> "a dog sitting on the green grass", length |-> 32]
\* conf = max(0.0, min(1.0, 0.9 - 0.005 * max(0, len(text) - 15))), in hundredths
\* (rounded down to a whole hundredth)
LocalConfidence(length) ==
    LET over == IF length > 15 THEN length - 15 ELSE 0
        raw == 90 - (over + 1) \div 2
    IN IF raw < 0 THEN 0 ELSE IF raw > 100 THEN 100 ELSE raw
MockCaption == "a mock caption for the image"

\* the except branch of CaptionerClient.caption, given what caption_cloud returned
LocalFallback(cc) ==
    [cb |-> cc.cb, rl |-> cc.rl,
     rec |-> IF cc.caption /= "" THEN CaptionRec(cc.caption, 100, "local")
             ELSE CaptionRec(MockCaption, 50, "local"),
     cloud |-> cc.verdict]

\* CaptionerClient.caption: BLIP, on any exception caption_cloud, then the mock caption;
\* cloud tells how its caption_cloud call ended ("none": BLIP worked, no call)
CaptionLocal(b, r, prov, t, localOk, out) ==
    IF localOk
    THEN [cb |-> b, rl |-> r,
          rec |-> CaptionRec(LocalCaption.text, LocalConfidence(LocalCaption.length),
                             "local"),
          cloud |-> "none"]
    ELSE LocalFallback(CaptionCloud(b, r, prov, t, out))

\* ingest_image: caption, origin and conf after the cache, edge and local branches
TierResult(decision, hint, conf, local) ==
    IF decision.tier = "cache"
    THEN CaptionRec(decision.cached_result.rec.caption,
                    decision.cached_result.rec.confidence,
                    decision.cached_result.rec.origin)
    ELSE IF decision.tier = "edge"
         THEN CaptionRec(hint.text, OrElse(conf, 100), "edge")
         ELSE local

(***************************************************************************)
(* Initial state                                                           *)
(***************************************************************************)
NoCall == [op |-> "none", pre |-> NewCircuitBreaker, at |-> None, allow |-> FALSE]

breakerHist == <<lastCall, closedFailures>>
cloudVars == <<provider, rl, call, halfOpenAdmitted>>
routeVars == <<cache, routed, ingested>>
workerVars == <<queue, worker, slots, running, nextJob, handed, closed>>
histVars == <<allowTimes, lastRL, lastCloud, stored, earlier>>
searchVars == <<vectorBackend, docs, found, answered, removed>>
askVars == <<classified, polled>>

InitBreaker ==
    /\ now = StartTime
    /\ ticks = 0
    /\ cb = NewCircuitBreaker
    /\ lastCall = NoCall
    /\ closedFailures = 0

InitCloud ==
    /\ provider \in Providers
    /\ rl = NewRateLimiter(BudgetRequests * EstimateOf(provider), StartTime)
    /\ call = [p \in Procs |-> "idle"]
    /\ halfOpenAdmitted = 0

NotRouted ==
    [called |-> FALSE, raised |-> FALSE, img |-> 1, hint |-> NoHint, conf |-> None,
     budget |-> 0, cached |-> Miss, decision |-> NoDecision]

\* history of a call: what it was given and returned, and the breaker state and the
\* limiter's daily count it ran under
Snapshot(r, b, l) == [call |-> r, cb_state |-> b.state, daily_requests |-> l.daily_requests]
\* no call remembered
NoSnapshot == [call |-> NotRouted, cb_state |-> "closed", daily_requests |-> 0]

InitRoute ==
    /\ cache = [i \in Images |-> NoValue]
    /\ routed = NotRouted

\* no request is being handled
NotIngesting ==
    [pc |-> "idle", img |-> 1, hint |-> NoHint, conf |-> None,
     local |-> CaptionRec("", 0, "none"), raw |-> NoValue, cached |-> Miss,
     decision |-> NoDecision, result |-> CaptionRec("", 0, "none"), status |-> "none",
     local_calls |-> 0, cloud_calls |-> 0, persisted |-> FALSE]

InitIngest == ingested = NotIngesting

JobIds == 1..MaxJobs
NoJob ==
    [job_id |-> None, img |-> 1, text_hint |-> NoHint, client_confidence |-> None,
     priority |-> "normal"]
NoSlot == [status |-> "none", caption |-> "", origin |-> "none"]
\* the JSON process_job stores under ingestion:result:<job_id>; origin is history, kept
\* to tell a hint's text pieces from a caption string
Slot(status, rec) ==
    IF status = "completed"
    THEN [status |-> status, caption |-> rec.caption, origin |-> rec.origin]
    ELSE [status |-> status, caption |-> "", origin |-> "none"]
\* history of a worker task: the job it handled last, the result slots it wrote for it,
\* the tier the router chose, how the cloud call of the cloud tier ended, and whether
\* every step other than the caption step did its work (clean)
Handled(job_id, writes, tier, cloud, clean) ==
    [job_id |-> job_id, writes |-> writes, tier |-> tier, cloud |-> cloud,
     clean |-> clean]
\* a worker task about to test self.running, no job handled yet
NewWorker ==
    [pc |-> "loop", job |-> NoJob, last |-> Handled(None, 0, "none", "none", FALSE)]

\* BaseWorker.start: running = True and `concurrency` tasks on an empty queue
InitWorker ==
    /\ queue = <<>>
    /\ worker = [w \in Procs |-> NewWorker]
    /\ slots = [j \in JobIds |-> NoSlot]
    /\ running = TRUE
    /\ nextJob = 0
    /\ handed = <<>>
    /\ closed = FALSE

\* no row upserted for the image
NoRow == [present |-> FALSE, rec |-> CaptionRec("", 0, "none")]
Row(rec) == [present |-> TRUE, rec |-> rec]

\* an empty embed store
InitStore == rows = [i \in Images |-> NoRow]

\* no lookup of the cache yet
NoLookup == [done |-> FALSE, img |-> 1, result |-> Miss, seen |-> <<>>]

\* no call of a limiter method yet
NoLimiterCall == [op |-> "none", at |-> None, est |-> 0, allow |-> FALSE]

\* nothing has been called yet
InitHistory ==
    /\ allowTimes = <<>>
    /\ lastRL = [op |-> "none", at |-> None, est |-> 0, allow |-> FALSE, pre |-> rl,
                 prev |-> NoLimiterCall]
    /\ lastCloud = [step |-> "none", verdict |-> "none", at |-> None, pre_cb |-> cb,
                    pre_rl |-> rl]
    /\ stored = [log |-> [i \in Images |-> <<>>], lookup |-> NoLookup]
    /\ earlier = NoSnapshot

\* owner_user_id NULL (pgvector) or the key left out of the payload (Qdrant), and the
\* user_id of an anonymous caller (None)
NoOwner == "none"
\* no row (point) under the image id
NoDoc == [present |-> FALSE, owner |-> NoOwner, visibility |-> "private", deleted |-> FALSE]
\* current_user is None: no Authorization header
NoUser == [id |-> NoOwner, role |-> "anonymous"]
\* no search request yet
NoSearch ==
    [asked |-> "none", caller |-> NoUser, status |-> 0, embedded |-> FALSE,
     queried |-> FALSE, results |-> {}]

\* an empty store, nothing searched
\* no image-endpoint request is being answered
NoAnswer == [op |-> "none", caller |-> NoUser, img |-> 0, status |-> 0, ids |-> {}]

InitSearch ==
    /\ docs = [i \in Images |-> NoDoc]
    /\ found = NoSearch
    /\ answered = NoAnswer
    /\ removed = {}

\* classify has not been called
NoClassified == [called |-> FALSE, text |-> <<>>, level |-> "none", score |-> 0]
\* the job has not been polled and its result slot has not expired
NoPoll == [last |-> "none", expired |-> FALSE]

InitAsk ==
    /\ classified = NoClassified
    /\ polled = [j \in JobIds |-> NoPoll]

InitCore ==
    /\ InitAsk
    /\ InitBreaker
    /\ InitCloud
    /\ InitRoute
    /\ InitIngest
    /\ InitWorker
    /\ InitStore
    /\ InitHistory
    /\ InitSearch

\* VECTOR_BACKEND defaults to pgvector
Init ==
    /\ InitCore
    /\ vectorBackend = "pgvector"

(***************************************************************************)
(* The clock                                                               *)
(***************************************************************************)
Tick ==
    /\ ticks < MaxTicks
    /\ \E d \in TickSteps : now' = now + d
    /\ ticks' = ticks + 1
    /\ UNCHANGED <<cb, breakerHist, cloudVars, routeVars,
                   workerVars,
                   histVars, rows, searchVars, askVars>>

(***************************************************************************)
(* The breaker driven through its public methods                           *)
(***************************************************************************)
BreakerCanProceed ==
    LET r == CanProceedCB(cb, now) IN
    /\ cb' = r.cb
    /\ lastCall' = [op |-> "can_proceed", pre |-> cb, at |-> now, allow |-> r.allow]
    /\ UNCHANGED <<now, ticks, closedFailures, cloudVars, routeVars,
                   workerVars,
                   histVars, rows, searchVars, askVars>>

BreakerRecordSuccess ==
    /\ cb' = RecordSuccessCB(cb)
    /\ lastCall' = [op |-> "record_success", pre |-> cb, at |-> now, allow |-> FALSE]
    /\ closedFailures' = IF cb.state \in {CLOSED, HALF_OPEN} THEN 0 ELSE closedFailures
    /\ UNCHANGED <<now, ticks, cloudVars, routeVars,
                   workerVars,
                   histVars, rows, searchVars, askVars>>

BreakerRecordFailure ==
    /\ cb' = RecordFailureCB(cb, now)
    /\ lastCall' = [op |-> "record_failure", pre |-> cb, at |-> now, allow |-> FALSE]
    /\ closedFailures' = IF cb.state = CLOSED THEN closedFailures + 1 ELSE closedFailures
    /\ UNCHANGED <<now, ticks, cloudVars, routeVars,
                   workerVars,
                   histVars, rows, searchVars, askVars>>

BreakerReset ==
    /\ cb' = ResetCB(cb)
    /\ lastCall' = [op |-> "reset", pre |-> cb, at |-> now, allow |-> FALSE]
    /\ closedFailures' = 0
    /\ UNCHANGED <<now, ticks, cloudVars, routeVars,
                   workerVars,
                   histVars, rows, searchVars, askVars>>

NextBreaker ==
    \/ Tick
    \/ BreakerCanProceed
    \/ BreakerRecordSuccess
    \/ BreakerRecordFailure
    \/ BreakerReset

SpecBreaker == Init /\ [][NextBreaker]_vars

(***************************************************************************)
(* Concurrent caption_cloud calls                                          *)
(***************************************************************************)
CloudStart(p) ==
    /\ call[p] = "idle"
    /\ LET a == CloudAdmission(cb, rl, provider, now) IN
       /\ cb' = a.cb
       /\ rl' = a.rl
       /\ call' = [call EXCEPT ![p] = IF a.verdict = "sent" THEN "inflight" ELSE "idle"]
       /\ halfOpenAdmitted' = ProbesAfter(cb, a.cb, a.verdict = "sent")
       /\ allowTimes' = IF a.verdict = "sent" THEN AllowsAfter(allowTimes, now)
                         ELSE allowTimes
    /\ UNCHANGED <<now, ticks, breakerHist, provider, routeVars, workerVars, rows,
                   lastRL, lastCloud, stored, earlier, searchVars, askVars>>

CloudFinish(p) ==
    /\ call[p] = "inflight"
    /\ \E ok \in {TRUE} \cup {~CanFail(provider)} : \E cost \in CostsOf(provider) :
          LET c == CloudCompletion(cb, rl, provider, now, ok, cost) IN
          /\ cb' = c.cb
          /\ rl' = c.rl
          /\ call' = [call EXCEPT ![p] = "idle"]
          /\ halfOpenAdmitted' = ProbesAfter(cb, c.cb, FALSE)
    /\ UNCHANGED <<now, ticks, breakerHist, provider, routeVars,
                   workerVars,
                   histVars, rows, searchVars, askVars>>

\* time passes between two steps of the concurrent callers
CloudTick ==
    /\ ticks < MaxCloudTicks
    /\ Tick

NextCloud ==
    \/ CloudTick
    \/ \E p \in Procs : CloudStart(p)
    \/ \E p \in Procs : CloudFinish(p)

SpecCloud == Init /\ [][NextCloud]_vars

(***************************************************************************)
(* One caller making caption_cloud calls one after the other               *)
(***************************************************************************)
\* history: the step just taken, its verdict, and the breaker and limiter it found
CloudStep(step, verdict) ==
    [step |-> step, verdict |-> verdict, at |-> now, pre_cb |-> cb, pre_rl |-> rl]

CallStart ==
    /\ call[1] = "idle"
    /\ LET a == CloudAdmission(cb, rl, provider, now) IN
       /\ cb' = a.cb
       /\ rl' = a.rl
       /\ call' = [call EXCEPT ![1] = IF a.verdict = "sent" THEN "inflight" ELSE "idle"]
       /\ lastCloud' = CloudStep("admission", a.verdict)
    /\ UNCHANGED <<now, ticks, breakerHist, provider, halfOpenAdmitted, routeVars,
                   workerVars, rows, allowTimes, lastRL, stored, earlier, searchVars,
                   askVars>>

CallFinish ==
    /\ call[1] = "inflight"
    /\ \E ok \in {TRUE} \cup {~CanFail(provider)} : \E cost \in CostsOf(provider) :
          LET c == CloudCompletion(cb, rl, provider, now, ok, cost) IN
          /\ cb' = c.cb
          /\ rl' = c.rl
          /\ call' = [call EXCEPT ![1] = "idle"]
          /\ lastCloud' = CloudStep("completion", c.outcome)
    /\ UNCHANGED <<now, ticks, breakerHist, provider, halfOpenAdmitted, routeVars,
                   workerVars, rows, allowTimes, lastRL, stored, earlier, searchVars,
                   askVars>>

\* time passes between two steps of the caller
CallTick ==
    /\ ticks < MaxCallTicks
    /\ Tick

NextCall ==
    \/ CallTick
    \/ CallStart
    \/ CallFinish

SpecCall == Init /\ [][NextCall]_vars

(***************************************************************************)
(* The RateLimiter's methods called directly, one call at a time           *)
(***************************************************************************)
\* the estimates can_proceed is called with (the providers' estimated costs)
Estimates == {EstimateOf(prov) : prov \in {"mock", "openrouter"}}

\* history: the method just called, when, with what, its answer, the limiter it found,
\* and the same about the call before it
LimiterCall(op, est, allow) ==
    [op |-> op, at |-> now, est |-> est, allow |-> allow, pre |-> rl,
     prev |-> [op |-> lastRL.op, at |-> lastRL.at, est |-> lastRL.est,
               allow |-> lastRL.allow]]

LimiterCanProceed ==
    /\ \E est \in Estimates :
          LET c == CanProceedRL(rl, now, est) IN
          /\ rl' = c.rl
          /\ lastRL' = LimiterCall("can_proceed", est, c.allow)
    /\ UNCHANGED <<now, ticks, cb, breakerHist, provider, call, halfOpenAdmitted,
                   routeVars, workerVars, rows, allowTimes, lastCloud, stored, earlier,
                   searchVars, askVars>>

LimiterRecordRequest ==
    /\ rl.daily_requests < MaxPerDay
    /\ \E cost \in CostsOf(provider) :
          /\ rl' = RecordRequestRL(rl, now, cost)
          /\ lastRL' = LimiterCall("record_request", cost, FALSE)
    /\ UNCHANGED <<now, ticks, cb, breakerHist, provider, call, halfOpenAdmitted,
                   routeVars, workerVars, rows, allowTimes, lastCloud, stored, earlier,
                   searchVars, askVars>>

\* time passes between two calls
LimiterTick ==
    /\ ticks < MaxLimiterTicks
    /\ Tick

\* a limiter that belongs to a provider (the factory builds none without one)
InitLimiter == Init /\ provider /= "unavailable"

NextLimiter ==
    \/ LimiterTick
    \/ LimiterCanProceed
    \/ LimiterRecordRequest

SpecLimiter == InitLimiter /\ [][NextLimiter]_vars

(***************************************************************************)
(* SemanticCache operations of concurrent requests: each store is one      *)
(* SETEX and each lookup one GET, so they interleave as whole operations   *)
(***************************************************************************)
\* a completed store: the record and when its SETEX ran
StoreEvent(rec, t) == [rec |-> rec, at |-> t]
\* the stores whose TTL has not run out at time t
Alive(log, t) == SelectSeq(log, LAMBDA e : t - e.at < CACHE_TTL)
\* Redis at time t: a key is gone once the TTL of its last SETEX has run out
ExpireKeys(c, log, t) ==
    [i \in Images |->
        IF log[i] /= <<>> /\ t - log[i][Len(log[i])].at >= CACHE_TTL THEN NoValue
        ELSE c[i]]

\* how many stores are alive, over all keys
AliveStores(log) ==
    Cardinality(UNION {{<<i, k>> : k \in DOMAIN log[i]} : i \in Images})

\* SemanticCache.store(img, rec) of some request
CacheStoreOp ==
    /\ \E img \in Images, rec \in StoredRecords :
          /\ AliveStores(stored.log) < MaxStores
          /\ cache' = CacheStore(cache, img, rec)
          /\ stored' = [stored EXCEPT !.log[img] = Append(@, StoreEvent(rec, now))]
    /\ UNCHANGED <<now, ticks, cb, breakerHist, cloudVars, routed, ingested, workerVars,
                   rows, allowTimes, lastRL, lastCloud, earlier, searchVars, askVars>>

\* SemanticCache.lookup(img) of some request; seen is what had been stored and was alive
CacheLookupOp ==
    /\ \E img \in Images :
          stored' = [stored EXCEPT !.lookup = [done |-> TRUE, img |-> img,
                                               result |-> CacheLookup(cache, img),
                                               seen |-> stored.log[img]]]
    /\ UNCHANGED <<now, ticks, cb, breakerHist, cloudVars, routeVars, workerVars,
                   rows, allowTimes, lastRL, lastCloud, earlier, searchVars, askVars>>

\* time passes: a second, or a whole TTL
CacheTick ==
    /\ ticks < MaxCacheTicks
    /\ \E d \in {1, CACHE_TTL - 1} :
          /\ now' = now + d
          /\ cache' = ExpireKeys(cache, stored.log, now + d)
          /\ stored' = [stored EXCEPT !.log = [i \in Images |-> Alive(stored.log[i], now + d)]]
    /\ ticks' = ticks + 1
    /\ UNCHANGED <<cb, breakerHist, cloudVars, routed, ingested, workerVars,
                   rows, allowTimes, lastRL, lastCloud, earlier, searchVars, askVars>>

NextCache ==
    \/ CacheStoreOp
    \/ CacheLookupOp
    \/ CacheTick

\* the cache does not depend on the cloud provider: one configuration is enough
InitCache == Init /\ provider = "mock"

SpecCache == InitCache /\ [][NextCache]_vars

(***************************************************************************)
(* The router called on arbitrary inputs.  The cache is an input of the    *)
(* call: between calls it is filled by cloud successes and emptied by TTL  *)
(* expiry.                                                                 *)
(***************************************************************************)
\* ingest_image after a cloud success: router.cache.store(img_bytes, {...})
CachePut(img, caption) ==
    /\ ~routed.called
    /\ cache' = CacheStore(cache, img, CaptionRec(caption, 100, "cloud"))
    /\ UNCHANGED <<now, ticks, cb, breakerHist, cloudVars, routed, ingested,
                   workerVars,
                   histVars, rows, searchVars, askVars>>

\* Redis drops the key when its TTL (CACHE_TTL = 3600 s) runs out
CacheExpire(img) ==
    /\ ~routed.called
    /\ cache[img] /= NoValue
    /\ cache' = [cache EXCEPT ![img] = NoValue]
    /\ UNCHANGED <<now, ticks, cb, breakerHist, cloudVars, routed, ingested,
                   workerVars,
                   histVars, rows, searchVars, askVars>>

\* route_caption_request; redisUp = FALSE is cache.lookup raising (SemanticCache.lookup
\* has no except clause, and the router's try has only a finally)
RouteCall ==
    /\ ~routed.called
    /\ \E img \in Images, hint \in Hints, conf \in Confidences, budget \in Budgets,
          redisUp \in BOOLEAN :
          LET cached == IF redisUp THEN CacheLookup(cache, img) ELSE Miss IN
          routed' = [called |-> TRUE, raised |-> ~redisUp, img |-> img, hint |-> hint,
                     conf |-> conf, budget |-> budget, cached |-> cached,
                     decision |-> IF redisUp
                                  THEN RouteDecision(cached, hint, conf, budget)
                                  ELSE NoDecision]
    /\ UNCHANGED <<now, ticks, cb, breakerHist, cloudVars, cache, ingested,
                   workerVars,
                   histVars, rows, searchVars, askVars>>

\* the caller has consumed the decision
RouteReturn ==
    /\ routed.called
    /\ routed' = NotRouted
    /\ UNCHANGED <<now, ticks, cb, breakerHist, cloudVars, cache, ingested,
                   workerVars,
                   histVars, rows, searchVars, askVars>>

NextRoute ==
    \/ \E img \in Images, c \in CloudCaptions : CachePut(img, c)
    \/ \E img \in Images : CacheExpire(img)
    \/ RouteCall
    \/ RouteReturn

\* CLOUD_PROVIDER defaults to "mock"; the router does not read the provider
InitRouter == Init /\ provider = "mock"

SpecRoute == InitRouter /\ [][NextRoute]_vars

(***************************************************************************)
(* POST /images (ingest_image), one request at a time, cut at its awaits   *)
(***************************************************************************)
IngestHints == {NoHint, Hint(<<"dog">>), Hint(<<"dog", Space, "mood">>)}
IngestConfidences == {None, 100}
\* CAPTION_LATENCY_BUDGET_MS: the default, and a value under the router's threshold
IngestBudgets == {LowLatencyBudgetMs - 1, 600}

\* whether a caption_cloud call that ended with this verdict reached the provider's API
ProviderInvoked(verdict) == verdict \in {"success", "failed"}

\* the request after captioner.caption returned l
IngestLocal(img, hint, conf, l) ==
    /\ cb' = l.cb
    /\ rl' = l.rl
    /\ ingested' = [NotIngesting EXCEPT !.pc = "route", !.img = img, !.hint = hint,
                       !.conf = conf, !.local = l.rec, !.local_calls = 1,
                       !.cloud_calls = IF ProviderInvoked(l.cloud) THEN 1 ELSE 0]

\* mutant of IngestCloudBranch: when the cloud call gives no caption, the local caption
\* that is kept is stored in the cache as well
IngestCloudBranch_CacheLocal(cc, redisUp) ==
    /\ cb' = cc.cb
    /\ rl' = cc.rl
    /\ IF cc.caption = ""
       THEN /\ ingested' = [ingested EXCEPT !.pc = "persist",
                   !.cloud_calls = @ + IF ProviderInvoked(cc.verdict) THEN 1 ELSE 0]
            /\ cache' = CacheStore(cache, ingested.img, ingested.local)
       ELSE IF redisUp
            THEN /\ ingested' = [ingested EXCEPT !.pc = "persist",
                        !.cloud_calls = @ + 1,
                        !.result = CaptionRec(cc.caption, ingested.local.confidence,
                                              "cloud")]
                 /\ cache' = CacheStore(cache, ingested.img,
                                        CaptionRec(cc.caption, 100, "cloud"))
            ELSE /\ ingested' = [ingested EXCEPT !.pc = "done", !.status = "error",
                        !.cloud_calls = @ + 1]
                 /\ cache' = cache

\* the request after the cloud branch's caption_cloud returned cc
IngestCloudBranch(cc, redisUp) ==
    /\ cb' = cc.cb
    /\ rl' = cc.rl
    /\ IF cc.caption = ""
       THEN /\ ingested' = [ingested EXCEPT !.pc = "persist",
                   !.cloud_calls = @ + IF ProviderInvoked(cc.verdict) THEN 1 ELSE 0]
            /\ cache' = cache
       ELSE IF redisUp
            THEN /\ ingested' = [ingested EXCEPT !.pc = "persist",
                        !.cloud_calls = @ + 1,
                        !.result = CaptionRec(cc.caption, ingested.local.confidence,
                                              "cloud")]
                 /\ cache' = CacheStore(cache, ingested.img,
                                        CaptionRec(cc.caption, 100, "cloud"))
            ELSE /\ ingested' = [ingested EXCEPT !.pc = "done", !.status = "error",
                        !.cloud_calls = @ + 1]
                 /\ cache' = cache

\* 1. Local Caption (always run for fallback/metrics)
IngestStart ==
    /\ ingested.pc = "idle"
    /\ \E img \in Images, hint \in IngestHints, conf \in IngestConfidences,
          localOk \in BOOLEAN :
          \E out \in IF localOk THEN {NoOutcome} ELSE CloudOutcomes(provider) :
             IngestLocal(img, hint, conf,
                         CaptionLocal(cb, rl, provider, now, localOk, out))
    /\ UNCHANGED <<now, ticks, breakerHist, provider, call, halfOpenAdmitted, cache, routed,
                   workerVars,
                   histVars, rows, searchVars, askVars>>

\* 2. Route Request, then the cache, edge and local branches; a lookup that raises ends
\* the request with status 500
IngestRoute ==
    /\ ingested.pc = "route"
    /\ \E budget \in IngestBudgets, redisUp \in BOOLEAN :
          IF ~redisUp
          THEN ingested' = [ingested EXCEPT !.pc = "done", !.status = "error"]
          ELSE LET cached == CacheLookup(cache, ingested.img)
                   decision == RouteDecision(cached, ingested.hint, ingested.conf, budget)
               IN ingested' = [ingested EXCEPT
                      !.raw = cache[ingested.img],
                      !.cached = cached,
                      !.decision = decision,
                      !.result = TierResult(decision, ingested.hint, ingested.conf,
                                            ingested.local),
                      !.pc = IF decision.tier = "cloud" THEN "cloud" ELSE "persist"]
    /\ UNCHANGED <<now, ticks, cb, breakerHist, cloudVars, cache, routed,
                   workerVars,
                   histVars, rows, searchVars, askVars>>

\* the cloud branch: caption_cloud, and on success router.cache.store
IngestCloud ==
    /\ ingested.pc = "cloud"
    /\ \E out \in CloudOutcomes(provider), redisUp \in BOOLEAN :
          IngestCloudBranch(CaptionCloud(cb, rl, provider, now, out), redisUp)
    /\ UNCHANGED <<now, ticks, breakerHist, provider, call, halfOpenAdmitted, routed,
                   workerVars,
                   histVars, rows, searchVars, askVars>>

\* embedding, storage.save_image and store.upsert_image: any of them raising ends the
\* request with status 500, otherwise caption, origin and confidence are returned.
\* persisted tells that upsert_image wrote ingested.result under the image's id.
IngestPersist ==
    /\ ingested.pc = "persist"
    /\ \E ok \in BOOLEAN :
          ingested' = [ingested EXCEPT !.pc = "done",
                                       !.status = IF ok THEN "ok" ELSE "error",
                                       !.persisted = ok]
    /\ UNCHANGED <<now, ticks, cb, breakerHist, cloudVars, cache, routed,
                   workerVars,
                   histVars, rows, searchVars, askVars>>

\* the response has been sent
IngestReturn ==
    /\ ingested.pc = "done"
    /\ ingested' = NotIngesting
    /\ UNCHANGED <<now, ticks, cb, breakerHist, cloudVars, cache, routed,
                   workerVars,
                   histVars, rows, searchVars, askVars>>

NextIngest ==
    \/ IngestStart
    \/ IngestRoute
    \/ IngestCloud
    \/ IngestPersist
    \/ IngestReturn
    \/ \E img \in Images : CacheExpire(img)

SpecIngest == Init /\ [][NextIngest]_vars

(***************************************************************************)
(* route_caption_request called again and again, with cloud calls changing *)
(* the breaker and the limiter, and the cache filling and expiring,        *)
(* between the calls                                                       *)
(***************************************************************************)
\* the hint, confidence and budget a call is given: every tier and reason occurs
PairHints == {NoHint, Hint(<<"dog">>)}

\* mutant of RouteOutcome: a router that keeps requests off the cloud tier while the
\* circuit breaker is open
RouteOutcome_BreakerAware(c, img, hint, conf, budget, redisUp) ==
    [called |-> TRUE, raised |-> ~redisUp, img |-> img, hint |-> hint, conf |-> conf,
     budget |-> budget,
     cached |-> IF redisUp THEN CacheLookup(c, img) ELSE Miss,
     decision |-> IF ~redisUp THEN NoDecision
                  ELSE IF /\ cb.state = OPEN
                          /\ RouteDecision(CacheLookup(c, img), hint, conf,
                                           budget).tier = "cloud"
                       THEN RouteDecision(CacheLookup(c, img), Hint(<<"dog">>), None,
                                          budget)
                       ELSE RouteDecision(CacheLookup(c, img), hint, conf, budget)]

\* route_caption_request on cache c: the call's record, as RouteCall leaves it
RouteOutcome(c, img, hint, conf, budget, redisUp) ==
    [called |-> TRUE, raised |-> ~redisUp, img |-> img, hint |-> hint, conf |-> conf,
     budget |-> budget,
     cached |-> IF redisUp THEN CacheLookup(c, img) ELSE Miss,
     decision |-> IF redisUp
                  THEN RouteDecision(CacheLookup(c, img), hint, conf, budget)
                  ELSE NoDecision]

\* route_caption_request, with the headers and budgets of POST /images
PairCall ==
    /\ ~routed.called
    /\ \E img \in Images, hint \in PairHints, conf \in IngestConfidences,
          budget \in IngestBudgets, redisUp \in BOOLEAN :
          routed' = RouteOutcome(cache, img, hint, conf, budget, redisUp)
    /\ UNCHANGED <<now, ticks, cb, breakerHist, cloudVars, cache, ingested, workerVars,
                   histVars, rows, searchVars, askVars>>

\* the caller has consumed the decision; history either remembers this call or keeps
\* the call it remembered before
PairReturn ==
    /\ routed.called
    /\ routed' = NotRouted
    /\ \E keep \in BOOLEAN :
          earlier' = IF keep \/ routed.raised THEN earlier ELSE Snapshot(routed, cb, rl)
    /\ UNCHANGED <<now, ticks, cb, breakerHist, cloudVars, cache, ingested, workerVars,
                   rows, allowTimes, lastRL, lastCloud, stored, searchVars, askVars>>

\* between two route calls, a caption_cloud call runs to its end
PairCloudCall ==
    /\ ~routed.called
    /\ \E out \in CloudOutcomes(provider) :
          /\ cb' = CaptionCloud(cb, rl, provider, now, out).cb
          /\ rl' = CaptionCloud(cb, rl, provider, now, out).rl
    /\ UNCHANGED <<now, ticks, breakerHist, provider, call, halfOpenAdmitted, routeVars,
                   workerVars, histVars, rows, searchVars, askVars>>

NextRoutePair ==
    \/ PairCall
    \/ PairReturn
    \/ PairCloudCall
    \/ \E img \in Images : CachePut(img, "cloud caption A")
    \/ \E img \in Images : CacheExpire(img)

SpecRoutePair == InitRouter /\ [][NextRoutePair]_vars

(***************************************************************************)
(* POST /images/async and the ingestion worker                             *)
(***************************************************************************)
\* the hint and confidence headers a job carries: none, a simple caption with and
\* without a confidence
JobHeaders == {<<NoHint, None>>, <<Hint(<<"dog">>), 100>>, <<Hint(<<"dog">>), None>>}
\* job.get("latency_budget_ms", 2000): the producer never sets the key
JobBudget == 2000
\* where process_job raises before its result write: nowhere, before the caption step
\* (b64decode, save_image, the router's lookup), or after it (embed_image, upsert_image)
FailurePoints == {"none", "before_caption", "after_caption"}

\* ingest_image_async without ?priority ("normal"): LPUSH of a job with a fresh uuid
Enqueue ==
    /\ nextJob < MaxJobs
    /\ \E img \in Images, h \in JobHeaders :
          queue' = <<[job_id |-> nextJob + 1, img |-> img, text_hint |-> h[1],
                      client_confidence |-> h[2], priority |-> "normal"]>> \o queue
    /\ nextJob' = nextJob + 1
    /\ UNCHANGED <<now, ticks, cb, breakerHist, cloudVars, routeVars, worker, slots,
                   running,
                   histVars, handed, closed, rows, searchVars, askVars>>

\* while self.running: the task issues its next BRPOP
WorkerPoll(w) ==
    /\ worker[w].pc = "loop"
    /\ running
    /\ worker' = [worker EXCEPT ![w].pc = "brpop"]
    /\ UNCHANGED <<now, ticks, cb, breakerHist, cloudVars, routeVars, queue, slots,
                   running, nextJob,
                   histVars, handed, closed, rows, searchVars, askVars>>

\* mutant of WorkerExit: a loop that does not test running and issues its next BRPOP
WorkerExit_PollsAgain(w) ==
    /\ worker[w].pc = "loop"
    /\ ~running
    /\ worker' = [worker EXCEPT ![w].pc = "brpop"]
    /\ UNCHANGED <<now, ticks, cb, breakerHist, cloudVars, routeVars, queue, slots,
                   running, nextJob,
                   histVars, handed, closed, rows, searchVars, askVars>>

\* while self.running: the loop ends
WorkerExit(w) ==
    /\ worker[w].pc = "loop"
    /\ ~running
    /\ worker' = [worker EXCEPT ![w].pc = "exited"]
    /\ UNCHANGED <<now, ticks, cb, breakerHist, cloudVars, routeVars, queue, slots,
                   running, nextJob,
                   histVars, handed, closed, rows, searchVars, askVars>>

\* BRPOP times out on an empty list: result is None, continue
BrpopTimeout(w) ==
    /\ worker[w].pc = "brpop"
    /\ queue = <<>>
    /\ worker' = [worker EXCEPT ![w].pc = "loop"]
    /\ UNCHANGED <<now, ticks, cb, breakerHist, cloudVars, routeVars, queue, slots,
                   running, nextJob,
                   histVars, handed, closed, rows, searchVars, askVars>>

\* mutant of Dequeue: the pop takes the job at the left end, where LPUSH put the newest
Dequeue_LeftPop(w) ==
    /\ worker[w].pc = "brpop"
    /\ queue /= <<>>
    /\ worker' = [worker EXCEPT ![w] =
                     [pc |-> "process", job |-> queue[1],
                      last |-> Handled(queue[1].job_id, 0, "none", "none", FALSE)]]
    /\ queue' = SubSeq(queue, 2, Len(queue))
    /\ handed' = Append(handed, queue[1].job_id)
    /\ UNCHANGED <<now, ticks, cb, breakerHist, cloudVars, routeVars, slots, running,
                   nextJob,
                   histVars, closed, rows, searchVars, askVars>>

\* mutant of Dequeue: the job is read from the right end and left in the list
Dequeue_Peek(w) ==
    /\ worker[w].pc = "brpop"
    /\ queue /= <<>>
    /\ worker' = [worker EXCEPT ![w] =
                     [pc |-> "process", job |-> queue[Len(queue)],
                      last |-> Handled(queue[Len(queue)].job_id, 0, "none", "none",
                                       FALSE)]]
    /\ handed' = IF Len(handed) < MaxJobs
                 THEN Append(handed, queue[Len(queue)].job_id) ELSE handed
    /\ UNCHANGED <<now, ticks, cb, breakerHist, cloudVars, routeVars, slots, running,
                   nextJob, queue,
                   histVars, closed, rows, searchVars, askVars>>

\* BRPOP hands the task the job at the right end of the list
Dequeue(w) ==
    /\ worker[w].pc = "brpop"
    /\ queue /= <<>>
    /\ worker' = [worker EXCEPT ![w] =
                     [pc |-> "process", job |-> queue[Len(queue)],
                      last |-> Handled(queue[Len(queue)].job_id, 0, "none", "none",
                                       FALSE)]]
    /\ queue' = SubSeq(queue, 1, Len(queue) - 1)
    /\ handed' = Append(handed, queue[Len(queue)].job_id)
    /\ UNCHANGED <<now, ticks, cb, breakerHist, cloudVars, routeVars, slots, running,
                   nextJob,
                   histVars, closed, rows, searchVars, askVars>>

\* how the provider call of a job can end: a caption at the provider's highest cost, or
\* an exception
JobOutcomes(prov) ==
    {o \in CloudOutcomes(prov) :
        o.ok => /\ o.text = "cloud caption A"
                /\ \A c \in CostsOf(prov) : c <= o.cost}

\* process_job's local branch, given what captioner.caption returned
JobLocalBranch(cl) == [cb |-> cl.cb, rl |-> cl.rl, rec |-> cl.rec, cloud |-> "none"]
\* process_job's cloud branch, given what captioner.caption_cloud returned
JobCloudBranch(cc) ==
    [cb |-> cc.cb, rl |-> cc.rl, rec |-> CaptionRec(cc.caption, 95, "cloud"),
     cloud |-> cc.verdict]

\* the caption step of process_job: the caption, conf and origin each tier branch sets,
\* what it does to the breaker and the limiter, and how the cloud tier's call ended
JobCaption(b, r, prov, t, decision, job, localOk, out) ==
    IF decision.tier = "local"
    THEN JobLocalBranch(CaptionLocal(b, r, prov, t, localOk, out))
    ELSE IF decision.tier = "cloud"
    THEN JobCloudBranch(CaptionCloud(b, r, prov, t, out))
    ELSE IF decision.tier = "edge"
    THEN [cb |-> b, rl |-> r, cloud |-> "none",
          rec |-> CaptionRec(job.text_hint.text, job.client_confidence, "edge")]
    ELSE [cb |-> b, rl |-> r, cloud |-> "none", rec |-> decision.cached_result.rec]

\* mutant of SlotWritten: the except clause logs the failure and writes no result
SlotWritten_FailureUnreported(failAt, resultWriteOk, failedWriteOk) ==
    IF failAt = "none" /\ resultWriteOk THEN "completed"
    ELSE "none"

\* the slot process_job leaves behind: "completed" when every step and the SETEX of the
\* result succeed; otherwise the except clause's SETEX writes "failed", unless that
\* SETEX raises too, and then nothing is written and the exception reaches _worker_loop
SlotWritten(failAt, resultWriteOk, failedWriteOk) ==
    IF failAt = "none" /\ resultWriteOk THEN "completed"
    ELSE IF failedWriteOk THEN "failed"
    ELSE "none"

\* upsert_image of PgVectorStore raises on a caption of None: images.caption is NOT NULL
UpsertRaises(rec) == rec.caption = ""

\* what process_job writes for a job whose caption step gave cap: the row (when every
\* step up to upsert_image succeeded), the result slot, and the task's history
JobWrites(w, job, stored_row, tier, cap, written, clean) ==
    /\ cb' = cap.cb
    /\ rl' = cap.rl
    /\ rows' = IF stored_row THEN [rows EXCEPT ![job.img] = Row(cap.rec)] ELSE rows
    /\ slots' = IF written = "none" THEN slots
                ELSE [slots EXCEPT ![job.job_id] = Slot(written, cap.rec)]
    /\ worker' = [worker EXCEPT ![w] =
                     [pc |-> "loop", job |-> NoJob,
                      last |-> Handled(job.job_id, IF written = "none" THEN 0 ELSE 1,
                                       tier, cap.cloud, clean)]]

\* process_job once the caption step gave cap
JobAfterCaption(w, job, failAt, tier, cap, resultWriteOk, failedWriteOk) ==
    JobWrites(w, job, failAt = "none" /\ ~UpsertRaises(cap.rec), tier, cap,
              SlotWritten(IF UpsertRaises(cap.rec) /\ failAt = "none"
                          THEN "after_caption" ELSE failAt,
                          resultWriteOk, failedWriteOk),
              failAt = "none" /\ resultWriteOk)

\* process_job after the router's decision
JobRun(w, job, decision, failAt, localOk, out, resultWriteOk, failedWriteOk) ==
    IF failAt = "before_caption"
    THEN JobWrites(w, job, FALSE, "none",
                   [cb |-> cb, rl |-> rl, rec |-> CaptionRec("", 0, "none"),
                    cloud |-> "none"],
                   SlotWritten(failAt, resultWriteOk, failedWriteOk), FALSE)
    ELSE JobAfterCaption(w, job, failAt, decision.tier,
                         JobCaption(cb, rl, provider, now, decision, job, localOk, out),
                         resultWriteOk, failedWriteOk)

\* process_job from the dequeued job to the task being back at `while self.running`
ProcessJob(w) ==
    /\ worker[w].pc = "process"
    /\ \E failAt \in FailurePoints, localOk \in BOOLEAN, out \in JobOutcomes(provider),
          resultWriteOk \in BOOLEAN, failedWriteOk \in BOOLEAN :
          JobRun(w, worker[w].job,
                 RouteDecision(CacheLookup(cache, worker[w].job.img),
                               worker[w].job.text_hint, worker[w].job.client_confidence,
                               JobBudget),
                 failAt, localOk, out, resultWriteOk, failedWriteOk)
    /\ UNCHANGED <<now, ticks, breakerHist, provider, call, halfOpenAdmitted, routeVars,
                   queue, running, nextJob,
                   histVars, handed, closed, searchVars, askVars>>

\* BaseWorker.stop, run by the SIGTERM/SIGINT handler
WorkerStop ==
    /\ running
    /\ running' = FALSE
    /\ UNCHANGED <<now, ticks, cb, breakerHist, cloudVars, routeVars, queue, worker,
                   slots, nextJob,
                   histVars, handed, closed, rows, searchVars, askVars>>

NextWorker ==
    \/ Enqueue
    \/ \E w \in Procs : WorkerPoll(w)
    \/ \E w \in Procs : WorkerExit(w)
    \/ \E w \in Procs : BrpopTimeout(w)
    \/ \E w \in Procs : Dequeue(w)
    \/ \E w \in Procs : ProcessJob(w)
    \/ WorkerStop

SpecWorker == Init /\ [][NextWorker]_vars

(***************************************************************************)
(* The caption worker: the same loop on the list caption:jobs, with a      *)
(* process_job that captions and stores the result, and touches no store   *)
(***************************************************************************)
\* where CaptionWorker.process_job raises before its result write: nowhere, or before
\* the caption step (b64decode, the router's lookup)
CaptionFailurePoints == {"none", "before_caption"}

\* CaptionWorker.process_job after the router's decision: no embed, no upsert
CaptionJobRun(w, job, decision, failAt, localOk, out, resultWriteOk, failedWriteOk) ==
    IF failAt = "before_caption"
    THEN JobWrites(w, job, FALSE, "none",
                   [cb |-> cb, rl |-> rl, rec |-> CaptionRec("", 0, "none"),
                    cloud |-> "none"],
                   SlotWritten(failAt, resultWriteOk, failedWriteOk), FALSE)
    ELSE JobWrites(w, job, FALSE, decision.tier,
                   JobCaption(cb, rl, provider, now, decision, job, localOk, out),
                   SlotWritten(failAt, resultWriteOk, failedWriteOk), resultWriteOk)

\* CaptionWorker.process_job from the dequeued job to the task being back at the loop
ProcessCaptionJob(w) ==
    /\ worker[w].pc = "process"
    /\ \E failAt \in CaptionFailurePoints, localOk \in BOOLEAN,
          out \in JobOutcomes(provider), resultWriteOk \in BOOLEAN,
          failedWriteOk \in BOOLEAN :
          CaptionJobRun(w, worker[w].job,
                        RouteDecision(CacheLookup(cache, worker[w].job.img),
                                      worker[w].job.text_hint,
                                      worker[w].job.client_confidence, JobBudget),
                        failAt, localOk, out, resultWriteOk, failedWriteOk)
    /\ UNCHANGED <<now, ticks, breakerHist, provider, call, halfOpenAdmitted, routeVars,
                   queue, running, nextJob,
                   histVars, handed, closed, searchVars, askVars>>

\* Enqueue stands for a client's LPUSH on caption:jobs (a job with the same fields)
NextCaptionWorker ==
    \/ Enqueue
    \/ \E w \in Procs : WorkerPoll(w)
    \/ \E w \in Procs : WorkerExit(w)
    \/ \E w \in Procs : BrpopTimeout(w)
    \/ \E w \in Procs : Dequeue(w)
    \/ \E w \in Procs : ProcessCaptionJob(w)
    \/ WorkerStop

SpecCaptionWorker == Init /\ [][NextCaptionWorker]_vars

(***************************************************************************)
(* BaseWorker on its own: start, stop and _worker_loop around a            *)
(* process_job that is any subclass's, and producers that set a priority   *)
(***************************************************************************)
\* ?priority of POST /images/async
Priorities == {"low", "normal", "high"}

\* ingest_image_async with any priority: LPUSH of a job with a fresh uuid (a job
\* without client headers: the loop does not read the payload)
EnqueuePriority ==
    /\ nextJob < MaxJobs
    /\ \E p \in Priorities :
          queue' = <<[job_id |-> nextJob + 1, img |-> 1, text_hint |-> NoHint,
                      client_confidence |-> None, priority |-> p]>> \o queue
    /\ nextJob' = nextJob + 1
    /\ UNCHANGED <<now, ticks, cb, breakerHist, cloudVars, routeVars, worker, slots,
                   running, handed, closed, histVars, rows, searchVars, askVars>>

\* BRPOP raises (Redis error): the except clause logs and sleeps 1 s while running,
\* and the task is back at `while self.running`
BrpopRaises(w) ==
    /\ worker[w].pc = "brpop"
    /\ worker' = [worker EXCEPT ![w].pc = "loop"]
    /\ UNCHANGED <<now, ticks, cb, breakerHist, cloudVars, routeVars, queue, slots,
                   running, nextJob, handed, closed, histVars, rows, searchVars, askVars>>

\* process_job has written `written` (or nothing) for the task's job, and returned or
\* raised into the except clause of _worker_loop
JobEnded(w, written, clean) ==
    /\ slots' = IF written = "none" THEN slots
                ELSE [slots EXCEPT ![worker[w].job.job_id] =
                         Slot(written, CaptionRec(MockCaption, 50, "local"))]
    /\ worker' = [worker EXCEPT ![w] =
                     [pc |-> "loop", job |-> NoJob,
                      last |-> Handled(worker[w].job.job_id,
                                       IF written = "none" THEN 0 ELSE 1,
                                       "none", "none", clean)]]

\* await self.process_job(job) comes to its end, with the result writes a subclass's
\* process_job makes
JobEnds(w) ==
    /\ worker[w].pc = "process"
    /\ \E failAt \in FailurePoints, resultWriteOk \in BOOLEAN, failedWriteOk \in BOOLEAN :
          JobEnded(w, SlotWritten(failAt, resultWriteOk, failedWriteOk),
                   failAt = "none" /\ resultWriteOk)
    /\ UNCHANGED <<now, ticks, cb, breakerHist, cloudVars, routeVars, queue, running,
                   nextJob, handed, closed, histVars, rows, searchVars, askVars>>

\* start: asyncio.gather returns once every task's loop has ended; the finally clause
\* closes the Redis connection and start returns
StartReturns ==
    /\ ~closed
    /\ \A w \in Procs : worker[w].pc = "exited"
    /\ closed' = TRUE
    /\ UNCHANGED <<now, ticks, cb, breakerHist, cloudVars, routeVars, queue, worker,
                   slots, running, nextJob, handed, histVars, rows, searchVars, askVars>>

\* the steps of worker task w
WorkerStep(w) ==
    \/ WorkerPoll(w)
    \/ WorkerExit(w)
    \/ BrpopTimeout(w)
    \/ BrpopRaises(w)
    \/ Dequeue(w)
    \/ JobEnds(w)

NextLoop ==
    \/ EnqueuePriority
    \/ \E w \in Procs : WorkerStep(w)
    \/ WorkerStop
    \/ StartReturns

InitLoop == Init /\ provider = "mock"

SpecLoop == InitLoop /\ [][NextLoop]_vars

\* the event loop runs every task that is ready: a task's next step is taken when it
\* stays possible (BRPOP returns after its timeout, process_job returns), and so is
\* the continuation of start after gather
SpecLoopFair ==
    /\ SpecLoop
    /\ \A w \in Procs : WF_vars(WorkerStep(w))
    /\ WF_vars(StartReturns)

(***************************************************************************)
(* A queue being drained: Redis answers every command and nobody stops the *)
(* worker                                                                  *)
(***************************************************************************)
\* process_job comes to its end with Redis reachable: whatever raised inside it, the
\* SETEX of the result or the SETEX of the except clause succeeds
JobEndsReachable(w) ==
    /\ worker[w].pc = "process"
    /\ \E failAt \in FailurePoints :
          JobEnded(w, SlotWritten(failAt, TRUE, TRUE), failAt = "none")
    /\ UNCHANGED <<now, ticks, cb, breakerHist, cloudVars, routeVars, queue, running,
                   nextJob, handed, closed, histVars, rows, searchVars, askVars>>

\* the steps of worker task w while Redis is reachable
DrainStep(w) ==
    \/ WorkerPoll(w)
    \/ BrpopTimeout(w)
    \/ Dequeue(w)
    \/ JobEndsReachable(w)

NextDrain ==
    \/ EnqueuePriority
    \/ \E w \in Procs : DrainStep(w)

SpecDrain == InitLoop /\ [][NextDrain]_vars

\* the event loop resumes every task whose await has completed: BRPOP answers within
\* its 2 s timeout and process_job returns
SpecDrainFair ==
    /\ SpecDrain
    /\ \A w \in Procs : WF_vars(DrainStep(w))

(***************************************************************************)
(* GET /jobs/{job_id} while the worker handles the jobs and Redis expires  *)
(* the result slots                                                        *)
(***************************************************************************)
\* get_job_status: "processing" without a slot, "failed" for a slot whose status is
\* failed, "completed" for any other slot
JobStatus(slot) ==
    IF slot = NoSlot THEN "processing"
    ELSE IF slot.status = "failed" THEN "failed"
    ELSE "completed"

\* the job ids a client polls
PolledJobs == {1}

\* GET /jobs/{job_id} for a job id that was handed out
PollJob ==
    /\ \E j \in PolledJobs :
          /\ j <= nextJob
          /\ polled' = [polled EXCEPT ![j].last = JobStatus(slots[j])]
    /\ UNCHANGED <<now, ticks, cb, breakerHist, cloudVars, routeVars, workerVars,
                   histVars, rows, searchVars, classified>>

\* the 3600 s of a result slot's SETEX are over: Redis removes the key
SlotExpire ==
    /\ \E j \in JobIds :
          /\ slots[j] /= NoSlot
          /\ slots' = [slots EXCEPT ![j] = NoSlot]
          /\ polled' = [polled EXCEPT ![j].expired = TRUE]
    /\ UNCHANGED <<now, ticks, cb, breakerHist, cloudVars, routeVars, queue, worker,
                   running, nextJob, handed, closed, histVars, rows, searchVars,
                   classified>>

NextPoll ==
    \/ EnqueuePriority
    \/ \E w \in Procs : WorkerPoll(w)
    \/ \E w \in Procs : BrpopTimeout(w)
    \/ \E w \in Procs : Dequeue(w)
    \/ \E w \in Procs : JobEnds(w)
    \/ PollJob
    \/ SlotExpire

SpecPoll == InitLoop /\ [][NextPoll]_vars

(***************************************************************************)
(* GET /search over the vector store (pgvector or Qdrant), with rows being *)
(* upserted, made public or private, and soft-deleted between searches     *)
(***************************************************************************)
VectorBackends == {"pgvector", "qdrant"}
Visibilities == {"private", "public", "public_admin"}
Scopes == {"all", "mine", "public"}
\* the ?scope a request carries: none (the default applies), a scope, or another word
NoScope == "absent"
RequestedScopes == {NoScope, "everything"} \cup Scopes
\* the callers: anonymous, a user and an admin
Callers == {NoUser, [id |-> "u1", role |-> "user"], [id |-> "u2", role |-> "admin"]}
\* owner_user_id as upsert_image is given it
Owners == {NoOwner} \cup {c.id : c \in Callers \ {NoUser}}
\* ?k: one result, or the default 10
Ks == {1, 10}

\* PgVectorStore.upsert_image: a new row has deleted_at NULL; an existing row keeps
\* its deleted_at, and its owner when owner_user_id is None
PgUpsert(d, img, owner, vis) ==
    [d EXCEPT ![img] =
        [present |-> TRUE,
         owner |-> IF owner /= NoOwner THEN owner ELSE d[img].owner,
         visibility |-> vis,
         deleted |-> d[img].present /\ d[img].deleted]]
\* QdrantStore.upsert_image: the point's payload is replaced, with deleted_at None
QdrantUpsert(d, img, owner, vis) ==
    [d EXCEPT ![img] =
        [present |-> TRUE, owner |-> owner, visibility |-> vis, deleted |-> FALSE]]
\* update_visibility and soft_delete_image of both stores: nothing without the row
UpdateVisibility(d, img, vis) ==
    IF d[img].present THEN [d EXCEPT ![img].visibility = vis] ELSE d
SoftDelete(d, img) ==
    IF d[img].present THEN [d EXCEPT ![img].deleted = TRUE] ELSE d

\* visibility IN ('public', 'public_admin')
IsPublic(row) == row.visibility \in {"public", "public_admin"}
\* CAST(owner_user_id AS TEXT) = :user_id, and MatchValue on owner_user_id: a NULL or
\* missing owner matches no user
OwnedBy(row, user_id) == row.owner /= NoOwner /\ row.owner = user_id

\* mutant of PgWhere: scope "all" for a user without the owner-or-public clause
PgWhere_AllUnfiltered(row, user_id, scope) ==
    /\ ~row.deleted
    /\ IF user_id = NoOwner THEN IsPublic(row)
       ELSE IF scope = "mine" THEN OwnedBy(row, user_id)
       ELSE IF scope = "public" THEN IsPublic(row)
       ELSE TRUE

\* PgVectorStore.search: the WHERE clause
PgWhere(row, user_id, scope) ==
    /\ ~row.deleted
    /\ IF user_id = NoOwner THEN IsPublic(row)
       ELSE IF scope = "mine" THEN OwnedBy(row, user_id)
       ELSE IF scope = "public" THEN IsPublic(row)
       ELSE OwnedBy(row, user_id) \/ IsPublic(row)

\* QdrantStore.search: the must conditions, and for scope "all" of a user the should
\* conditions, of which one has to hold
QdrantMust(row, user_id, scope) ==
    /\ ~row.deleted
    /\ IF user_id = NoOwner THEN IsPublic(row)
       ELSE IF scope = "mine" THEN OwnedBy(row, user_id)
       ELSE IF scope = "public" THEN IsPublic(row)
       ELSE TRUE
QdrantShould(row, user_id, scope) ==
    IF user_id /= NoOwner /\ scope \notin {"mine", "public"}
    THEN OwnedBy(row, user_id) \/ IsPublic(row)
    ELSE TRUE
QdrantFilter(row, user_id, scope) ==
    QdrantMust(row, user_id, scope) /\ QdrantShould(row, user_id, scope)

\* the rows the store's filter lets through
Matches(kind, d, user_id, scope) ==
    {i \in Images :
        /\ d[i].present
        /\ IF kind = "qdrant" THEN QdrantFilter(d[i], user_id, scope)
           ELSE PgWhere(d[i], user_id, scope)}
\* LIMIT k of the ranked matches: the ranking is by score, so any k of them can be
\* the first k
TopK(m, k) ==
    {r \in SUBSET m : Cardinality(r) = IF Cardinality(m) < k THEN Cardinality(m) ELSE k}
\* a result as the store returns it, with the row it was read from
Hit(d, i) ==
    [id |-> i, owner |-> d[i].owner, visibility |-> d[i].visibility,
     deleted |-> d[i].deleted]

\* the response of GET /search, and what was done to produce it
Response(asked, caller, status, embedded, queried, results) ==
    [asked |-> asked, caller |-> caller, status |-> status, embedded |-> embedded,
     queried |-> queried, results |-> results]

\* mutant of Rejected: no authentication check on the scope
Rejected_NoAuthCheck(asked, scope, caller, embedOk) ==
    IF scope \notin Scopes THEN Response(asked, caller, 400, FALSE, FALSE, {})
    ELSE IF ~embedOk THEN Response(asked, caller, 500, TRUE, FALSE, {})
    ELSE NoSearch

\* GET /search up to the store query: 400 on an unknown scope, 401 for an anonymous
\* caller with scope all or mine, then embed_text (500 when it raises)
Rejected(asked, scope, caller, embedOk) ==
    IF scope \notin Scopes THEN Response(asked, caller, 400, FALSE, FALSE, {})
    ELSE IF scope \in {"all", "mine"} /\ caller = NoUser
    THEN Response(asked, caller, 401, FALSE, FALSE, {})
    ELSE IF ~embedOk THEN Response(asked, caller, 500, TRUE, FALSE, {})
    ELSE NoSearch

\* GET /search: scope defaults to "all"; PythonSearchBackend embeds the query and
\* calls store.search with the caller's id and the scope
SearchServed(asked, scope, caller, k, embedOk) ==
    IF Rejected(asked, scope, caller, embedOk) /= NoSearch
    THEN found' = Rejected(asked, scope, caller, embedOk)
    ELSE \E r \in TopK(Matches(vectorBackend, docs, caller.id, scope), k) :
            found' = Response(asked, caller, 200, TRUE, TRUE, {Hit(docs, i) : i \in r})

SearchRequest ==
    /\ found = NoSearch
    /\ \E asked \in RequestedScopes, caller \in Callers, k \in Ks, embedOk \in BOOLEAN :
          SearchServed(asked, IF asked = NoScope THEN "all" ELSE asked, caller, k,
                       embedOk)
    /\ UNCHANGED <<now, ticks, cb, breakerHist, cloudVars, routeVars, workerVars,
                   histVars, rows, vectorBackend, docs, answered, removed, askVars>>

\* the response has been sent
SearchReturn ==
    /\ found /= NoSearch
    /\ found' = NoSearch
    /\ UNCHANGED <<now, ticks, cb, breakerHist, cloudVars, routeVars, workerVars,
                   histVars, rows, vectorBackend, docs, answered, removed, askVars>>

\* store.upsert_image, as ingest_image and the ingestion worker call it (the store
\* query of a search is one statement: no write falls inside it)
StoreUpsert ==
    /\ found = NoSearch
    /\ \E img \in Images, owner \in Owners, vis \in Visibilities :
          docs' = IF vectorBackend = "qdrant" THEN QdrantUpsert(docs, img, owner, vis)
                  ELSE PgUpsert(docs, img, owner, vis)
    /\ UNCHANGED <<now, ticks, cb, breakerHist, cloudVars, routeVars, workerVars,
                   histVars, rows, vectorBackend, found, answered, removed, askVars>>

\* store.update_visibility, as PATCH /images/{id} calls it
StoreUpdateVisibility ==
    /\ found = NoSearch
    /\ \E img \in Images, vis \in Visibilities :
          /\ docs[img].present
          /\ docs' = UpdateVisibility(docs, img, vis)
    /\ UNCHANGED <<now, ticks, cb, breakerHist, cloudVars, routeVars, workerVars,
                   histVars, rows, vectorBackend, found, answered, removed, askVars>>

\* store.soft_delete_image, as DELETE /images/{id} calls it
StoreSoftDelete ==
    /\ found = NoSearch
    /\ \E img \in Images :
          /\ docs[img].present
          /\ docs' = SoftDelete(docs, img)
    /\ UNCHANGED <<now, ticks, cb, breakerHist, cloudVars, routeVars, workerVars,
                   histVars, rows, vectorBackend, found, answered, removed, askVars>>

NextSearch ==
    \/ SearchRequest
    \/ SearchReturn
    \/ StoreUpsert
    \/ StoreUpdateVisibility
    \/ StoreSoftDelete

InitSearchStores ==
    /\ InitCore
    /\ provider = "mock"
    /\ vectorBackend \in VectorBackends

SpecSearch == InitSearchStores /\ [][NextSearch]_vars

(***************************************************************************)
(* The image endpoints over the vector store: POST /images, GET            *)
(* /images/{id} with download and thumbnail, PATCH, DELETE, GET /images    *)
(* and GET /search, and the ingestion worker's upsert.  A store method has *)
(* no suspension point, so a handler reads and writes the store in one     *)
(* step.                                                                   *)
(***************************************************************************)
\* the visibility form field or PATCH body: a visibility, another word, or (PATCH
\* only) none
NoVisibility == "absent"
AskedVisibilities == Visibilities \cup {"hidden"}

\* CurrentUser.is_admin
IsAdmin(u) == u.role = "admin"
\* CurrentUser.can_access_image
CanAccessImage(u, image_owner_id, image_visibility) ==
    IF image_visibility \in {"public", "public_admin"} THEN TRUE
    ELSE IF image_visibility = "private" THEN u.id = image_owner_id \/ IsAdmin(u)
    ELSE FALSE
\* CurrentUser.can_modify_image
CanModifyImage(u, image_owner_id) == u.id = image_owner_id \/ IsAdmin(u)

\* mutant of AccessStatus: deleted_at is not looked at
AccessStatus_IgnoresDeleted(d, img, u) ==
    IF ~d[img].present THEN 404
    ELSE IF u = NoUser THEN (IF IsPublic(d[img]) THEN 200 ELSE 401)
    ELSE IF ~CanAccessImage(u, d[img].owner, d[img].visibility) THEN 403
    ELSE 200

\* mutant of AccessStatus: an anonymous caller is let through
AccessStatus_AnonymousPasses(d, img, u) ==
    IF ~d[img].present \/ d[img].deleted THEN 404
    ELSE IF u = NoUser THEN 200
    ELSE IF ~CanAccessImage(u, d[img].owner, d[img].visibility) THEN 403
    ELSE 200

\* get_image, download_image and download_thumbnail up to the storage read: 404
\* without a row or with deleted_at set, 401 for an anonymous caller of a row that
\* is not public, 403 when can_access_image refuses
AccessStatus(d, img, u) ==
    IF ~d[img].present \/ d[img].deleted THEN 404
    ELSE IF u = NoUser THEN (IF IsPublic(d[img]) THEN 200 ELSE 401)
    ELSE IF ~CanAccessImage(u, d[img].owner, d[img].visibility) THEN 403
    ELSE 200

\* store.upsert_image of the configured store
Upsert(kind, d, img, owner, vis) ==
    IF kind = "qdrant" THEN QdrantUpsert(d, img, owner, vis)
    ELSE PgUpsert(d, img, owner, vis)

\* ingest_image after require_auth: the visibility checks, then upsert_image with
\* the caller as owner (500 when captioning, embedding or the storage raises first)
PostOutcome(kind, d, img, u, vis, fails) ==
    IF u = NoUser THEN [status |-> 401, docs |-> d]
    ELSE IF fails THEN [status |-> 500, docs |-> d]
    ELSE IF vis \notin Visibilities THEN [status |-> 400, docs |-> d]
    ELSE IF vis = "public_admin" /\ ~IsAdmin(u) THEN [status |-> 403, docs |-> d]
    ELSE [status |-> 200, docs |-> Upsert(kind, d, img, u.id, vis)]

\* update_image
PatchOutcome(d, img, u, vis) ==
    IF u = NoUser THEN [status |-> 401, docs |-> d]
    ELSE IF ~d[img].present \/ d[img].deleted THEN [status |-> 404, docs |-> d]
    ELSE IF ~CanModifyImage(u, d[img].owner) THEN [status |-> 403, docs |-> d]
    ELSE IF vis = NoVisibility THEN [status |-> 200, docs |-> d]
    ELSE IF vis \notin Visibilities THEN [status |-> 400, docs |-> d]
    ELSE IF vis = "public_admin" /\ ~IsAdmin(u) THEN [status |-> 403, docs |-> d]
    ELSE [status |-> 200, docs |-> UpdateVisibility(d, img, vis)]

\* delete_image
DeleteOutcome(d, img, u) ==
    IF u = NoUser THEN [status |-> 401, docs |-> d]
    ELSE IF ~d[img].present \/ d[img].deleted THEN [status |-> 404, docs |-> d]
    ELSE IF ~CanModifyImage(u, d[img].owner) THEN [status |-> 403, docs |-> d]
    ELSE [status |-> 200, docs |-> SoftDelete(d, img)]

\* list_images of both stores: rows with deleted_at NULL; everything for an admin,
\* own or public rows for a user, public rows for an anonymous caller; then the
\* optional visibility filter (the default limit of 20 is never reached here)
Listed(d, u, visibility_filter) ==
    {i \in Images :
        /\ d[i].present
        /\ ~d[i].deleted
        /\ \/ IsAdmin(u)
           \/ u /= NoUser /\ (OwnedBy(d[i], u.id) \/ IsPublic(d[i]))
           \/ u = NoUser /\ IsPublic(d[i])
        /\ visibility_filter = NoVisibility \/ d[i].visibility = visibility_filter}

Answer(op, u, img, status, ids) ==
    [op |-> op, caller |-> u, img |-> img, status |-> status, ids |-> ids]

\* POST /images with the bytes of img
PostImage ==
    /\ answered = NoAnswer
    /\ \E u \in Callers, img \in Images, vis \in AskedVisibilities,
          fails \in BOOLEAN :
          /\ answered' = Answer("post", u, img,
                                PostOutcome(vectorBackend, docs, img, u, vis, fails).status,
                                {})
          /\ docs' = PostOutcome(vectorBackend, docs, img, u, vis, fails).docs
          /\ removed' =
                IF PostOutcome(vectorBackend, docs, img, u, vis, fails).status = 200
                THEN removed \ {img} ELSE removed
    /\ UNCHANGED <<now, ticks, cb, breakerHist, cloudVars, routeVars, workerVars,
                   histVars, rows, vectorBackend, found, askVars>>

\* the ingestion worker's upsert for a job of POST /images/async: the job carries the
\* submitter's id and no visibility, and the worker writes to a PgVectorStore whatever
\* store the API reads
WorkerUpsert ==
    /\ answered = NoAnswer
    /\ \E u \in Callers \ {NoUser}, img \in Images :
          /\ docs' = IF vectorBackend = "pgvector"
                     THEN PgUpsert(docs, img, u.id, "private") ELSE docs
          /\ removed' = removed \ {img}
          /\ answered' = Answer("job", u, img, 0, {})
    /\ UNCHANGED <<now, ticks, cb, breakerHist, cloudVars, routeVars, workerVars,
                   histVars, rows, vectorBackend, found, askVars>>

\* GET /images/{id}, /download and /thumbnail: the bytes saved at ingestion are there
\* whenever the row is
GetImage ==
    /\ answered = NoAnswer
    /\ \E op \in {"get", "download", "thumbnail"}, u \in Callers, img \in Images :
          answered' = Answer(op, u, img, AccessStatus(docs, img, u),
                             IF AccessStatus(docs, img, u) = 200 THEN {img} ELSE {})
    /\ UNCHANGED <<now, ticks, cb, breakerHist, cloudVars, routeVars, workerVars,
                   histVars, rows, vectorBackend, docs, found, removed, askVars>>

\* PATCH /images/{id}
PatchImage ==
    /\ answered = NoAnswer
    /\ \E u \in Callers, img \in Images,
          vis \in AskedVisibilities \cup {NoVisibility} :
          /\ answered' = Answer("patch", u, img, PatchOutcome(docs, img, u, vis).status,
                                IF PatchOutcome(docs, img, u, vis).status = 200
                                THEN {img} ELSE {})
          /\ docs' = PatchOutcome(docs, img, u, vis).docs
    /\ UNCHANGED <<now, ticks, cb, breakerHist, cloudVars, routeVars, workerVars,
                   histVars, rows, vectorBackend, found, removed, askVars>>

\* DELETE /images/{id}
DeleteImage ==
    /\ answered = NoAnswer
    /\ \E u \in Callers, img \in Images :
          /\ answered' = Answer("delete", u, img, DeleteOutcome(docs, img, u).status, {})
          /\ docs' = DeleteOutcome(docs, img, u).docs
          /\ removed' = IF DeleteOutcome(docs, img, u).status = 200
                        THEN removed \cup {img} ELSE removed
    /\ UNCHANGED <<now, ticks, cb, breakerHist, cloudVars, routeVars, workerVars,
                   histVars, rows, vectorBackend, found, askVars>>

\* GET /images
ListImages ==
    /\ answered = NoAnswer
    /\ \E u \in Callers, f \in Visibilities \cup {NoVisibility} :
          answered' = Answer("list", u, 0, 200, Listed(docs, u, f))
    /\ UNCHANGED <<now, ticks, cb, breakerHist, cloudVars, routeVars, workerVars,
                   histVars, rows, vectorBackend, docs, found, removed, askVars>>

\* GET /search, answered from the same store
SearchImages ==
    /\ answered = NoAnswer
    /\ \E u \in Callers, scope \in Scopes, k \in Ks :
          IF Rejected(scope, scope, u, TRUE) /= NoSearch
          THEN answered' = Answer("search", u, 0,
                                  Rejected(scope, scope, u, TRUE).status, {})
          ELSE \E r \in TopK(Matches(vectorBackend, docs, u.id, scope), k) :
                  answered' = Answer("search", u, 0, 200, r)
    /\ UNCHANGED <<now, ticks, cb, breakerHist, cloudVars, routeVars, workerVars,
                   histVars, rows, vectorBackend, docs, found, removed, askVars>>

\* the response has been sent
ImageReturn ==
    /\ answered /= NoAnswer
    /\ answered' = NoAnswer
    /\ UNCHANGED <<now, ticks, cb, breakerHist, cloudVars, routeVars, workerVars,
                   histVars, rows, vectorBackend, docs, found, removed, askVars>>

NextImages ==
    \/ PostImage
    \/ WorkerUpsert
    \/ GetImage
    \/ PatchImage
    \/ DeleteImage
    \/ ListImages
    \/ SearchImages
    \/ ImageReturn

SpecImages == InitSearchStores /\ [][NextImages]_vars

(***************************************************************************)
(* ComplexityClassifier.classify on its own                                *)
(***************************************************************************)
\* the texts classified: the hint texts, also with whitespace before or after them
ClassifyTexts ==
    HintTexts \cup {<<Space>> \o t : t \in HintTexts} \cup {t \o <<Space>> : t \in HintTexts}

\* classify(text) of the stateless classifier
ClassifyCall ==
    /\ \E text \in ClassifyTexts :
          classified' = [called |-> TRUE, text |-> text,
                         level |-> Classify(text).level, score |-> Classify(text).score]
    /\ UNCHANGED <<now, ticks, cb, breakerHist, cloudVars, routeVars, workerVars,
                   histVars, rows, searchVars, polled>>

NextClassify == ClassifyCall

SpecClassify == Init /\ [][NextClassify]_vars

(***************************************************************************)
(* Probes of a breaker that opened: concurrent caption_cloud calls, with   *)
(* the clock moving on by the breaker's timeout while the circuit is open  *)
(***************************************************************************)
\* the timeout of the open circuit elapses
ProbeTick ==
    /\ ticks < MaxProbeTicks
    /\ cb.state = OPEN
    /\ now' = now + TimeoutSeconds
    /\ ticks' = ticks + 1
    /\ UNCHANGED <<cb, breakerHist, cloudVars, routeVars, workerVars, histVars, rows,
                   searchVars, askVars>>

NextProbe ==
    \/ ProbeTick
    \/ \E p \in Procs : CloudStart(p)
    \/ \E p \in Procs : CloudFinish(p)

SpecProbe == Init /\ [][NextProbe]_vars

\* a provider call that was sent comes back: the HTTP client has a timeout and the
\* mock sleeps for a bounded time, and the event loop resumes the waiting coroutine
SpecProbeFair ==
    /\ SpecProbe
    /\ \A p \in Procs : WF_vars(CloudFinish(p))

(***************************************************************************)
(* Circuit breaker claims (checked under SpecBreaker)                      *)
(***************************************************************************)
\* C6: from CLOSED with failure_count = 0, FailureThreshold consecutive record_failure
\* calls with no record_success between them leave the breaker OPEN, fewer leave it
\* CLOSED with failure_count equal to their number, and a record_success in CLOSED
\* puts the consecutive-failure count back to 0.
C6_ThresholdOpens ==
    /\ cb.state = CLOSED =>
          /\ closedFailures < FailureThreshold
          /\ cb.failure_count = closedFailures
    /\ closedFailures >= FailureThreshold => cb.state /= CLOSED
    /\ (lastCall.op = "record_failure" /\ lastCall.pre.state = CLOSED) =>
          IF closedFailures = FailureThreshold
          THEN cb.state = OPEN
          ELSE cb.state = CLOSED /\ closedFailures < FailureThreshold
    /\ (lastCall.op = "record_success" /\ lastCall.pre.state = CLOSED) =>
          cb.state = CLOSED /\ cb.failure_count = 0

\* C6 witness: the FailureThreshold-th consecutive failure has just opened the circuit
C6_Witness ==
    /\ lastCall.op = "record_failure"
    /\ lastCall.pre.state = CLOSED
    /\ lastCall.pre.failure_count = FailureThreshold - 1
    /\ closedFailures = FailureThreshold
    /\ cb.state = OPEN

\* C7: while OPEN, opened_at is set; a can_proceed made less than TimeoutSeconds after
\* opened_at is denied and changes nothing; a can_proceed at or after the timeout is
\* allowed and moves the breaker to HALF_OPEN with half_open_calls = 0.
C7_OpenBlocksUntilTimeout ==
    /\ cb.state = OPEN => (cb.opened_at /= None /\ cb.opened_at <= now)
    /\ (lastCall.op = "can_proceed" /\ lastCall.pre.state = OPEN) =>
          IF lastCall.at - lastCall.pre.opened_at < TimeoutSeconds
          THEN /\ ~lastCall.allow
               /\ cb = lastCall.pre
          ELSE /\ lastCall.allow
               /\ cb.state = HALF_OPEN
               /\ cb.half_open_calls = 0

\* C7 witness: a can_proceed exactly TimeoutSeconds after opening found the breaker OPEN
\* and moved it to HALF_OPEN
C7_Witness ==
    /\ lastCall.op = "can_proceed"
    /\ lastCall.pre.state = OPEN
    /\ lastCall.at - lastCall.pre.opened_at = TimeoutSeconds
    /\ cb.state = HALF_OPEN

\* C9: in HALF_OPEN one record_success closes the circuit with failure_count and the
\* probe counter at 0, and one record_failure reopens it with opened_at = now.
C9_HalfOpenOutcome ==
    /\ (lastCall.op = "record_success" /\ lastCall.pre.state = HALF_OPEN) =>
          /\ cb.state = CLOSED
          /\ cb.failure_count = 0
          /\ cb.half_open_calls = 0
          /\ cb.success_count = 0
    /\ (lastCall.op = "record_failure" /\ lastCall.pre.state = HALF_OPEN) =>
          /\ cb.state = OPEN
          /\ cb.opened_at = lastCall.at
          /\ (now - lastCall.at < TimeoutSeconds => ~CanProceedCB(cb, now).allow)

\* C9 witness: a success recorded in HALF_OPEN, after FailureThreshold failures and
\* a used probe, has closed the circuit
C9_Witness ==
    /\ lastCall.op = "record_success"
    /\ lastCall.pre.state = HALF_OPEN
    /\ lastCall.pre.failure_count = FailureThreshold
    /\ lastCall.pre.half_open_calls = HalfOpenMaxCalls
    /\ cb.state = CLOSED

(***************************************************************************)
(* Cloud call claims (checked under SpecCloud)                             *)
(***************************************************************************)
\* C8: between the breaker entering HALF_OPEN and leaving it, at most
\* half_open_max_calls cloud requests are sent to the provider, the request whose
\* can_proceed made the OPEN -> HALF_OPEN transition included.
C8_HalfOpenProbeLimit == halfOpenAdmitted <= HalfOpenMaxCalls

\* C11: no sliding 60-second window holds more than max_per_minute allow answers of
\* can_proceed, whether the admitted requests later succeed, fail or are still in flight.
C11_PerMinuteAdmissions ==
    ~(/\ Len(allowTimes) = MaxPerMinute + 1
      /\ allowTimes[Len(allowTimes)] - allowTimes[1] < MinuteWindow)

\* C10: within a daily window the accumulated daily_cost never exceeds the daily
\* budget plus the admission estimate of one request.
C10_DailyCostBound == rl.daily_cost <= rl.daily_budget_usd + EstimateOf(provider)

(***************************************************************************)
(* Cache claims (checked under SpecCache).  stored.lookup holds the last   *)
(* lookup's answer and the stores that were alive when it ran.             *)
(***************************************************************************)
\* C20 as stated: a lookup returns the record of every store on its image that
\* completed before it and whose TTL has not run out, never a different record.
C20_LookupReturnsStored ==
    stored.lookup.done =>
        \A k \in DOMAIN stored.lookup.seen :
            stored.lookup.result = Entry(stored.lookup.seen[k].rec)

\* C20 amended: a lookup returns the record of the most recent completed store on its
\* image whose TTL has not run out (a later store replaces an earlier one), and a miss
\* when there is none; it never returns a record that was not stored.
C20_LookupReturnsLastStored ==
    stored.lookup.done =>
        stored.lookup.result =
            IF stored.lookup.seen = <<>> THEN Miss
            ELSE Entry(stored.lookup.seen[Len(stored.lookup.seen)].rec)

\* C20 witness: a lookup that ran after two different records were stored on its image
C20_Witness ==
    /\ stored.lookup.done
    /\ Len(stored.lookup.seen) = 2
    /\ stored.lookup.seen[1].rec /= stored.lookup.seen[2].rec
    /\ stored.lookup.result.hit

(***************************************************************************)
(* Limiter claims (checked under SpecLimiter).  lastRL holds the limiter   *)
(* the last call found; rl is what it left.                                *)
(***************************************************************************)
\* a timestamp can_proceed keeps at time t
InWindow(x, t) == t - x < MinuteWindow
\* the 24-hour reset is due at the last call
ResetDue == lastRL.at - lastRL.pre.last_reset > DayWindow

\* C13: can_proceed leaves every limiter counter as it was, apart from dropping
\* timestamps that left the 60 s window and the 24-hour reset; and a can_proceed that
\* follows another with the same estimate, no record_request and no time in between,
\* gives the same answer.
C13_CanProceedInspects ==
    lastRL.op = "can_proceed" =>
        /\ SelectSeq(rl.minute_requests, LAMBDA x : InWindow(x, lastRL.at))
             = SelectSeq(lastRL.pre.minute_requests, LAMBDA x : InWindow(x, lastRL.at))
        /\ Len(rl.minute_requests) <= Len(lastRL.pre.minute_requests)
        /\ rl.max_per_minute = lastRL.pre.max_per_minute
        /\ rl.max_per_day = lastRL.pre.max_per_day
        /\ rl.daily_budget_usd = lastRL.pre.daily_budget_usd
        /\ IF ResetDue
           THEN rl.daily_requests = 0 /\ rl.daily_cost = 0 /\ rl.last_reset = lastRL.at
           ELSE /\ rl.daily_requests = lastRL.pre.daily_requests
                /\ rl.daily_cost = lastRL.pre.daily_cost
                /\ rl.last_reset = lastRL.pre.last_reset
        /\ (lastRL.prev.op = "can_proceed" /\ lastRL.prev.at = lastRL.at
              /\ lastRL.prev.est = lastRL.est) =>
              /\ lastRL.allow = lastRL.prev.allow
              /\ rl = lastRL.pre

\* C13 witness: two can_proceed calls in a row at the same time, both allowed, on a
\* limiter that holds a recorded request
C13_Witness ==
    /\ lastRL.op = "can_proceed"
    /\ lastRL.prev.op = "can_proceed"
    /\ lastRL.prev.at = lastRL.at
    /\ lastRL.prev.est = lastRL.est
    /\ lastRL.allow
    /\ rl.minute_requests /= <<>>

\* C13 second case reached: a can_proceed that dropped an expired timestamp
C13_WitnessPruned ==
    /\ lastRL.op = "can_proceed"
    /\ Len(rl.minute_requests) < Len(lastRL.pre.minute_requests)

(***************************************************************************)
(* Per-call claims (checked under SpecCall).  lastCloud holds the breaker   *)
(* and the limiter the last step found; cb and rl are what it left.        *)
(***************************************************************************)
\* the refusals at admission: the captioner's breaker check, the mock's own breaker
\* check, the provider's limiter check
Refusals == {"breaker_refused", "provider_breaker_refused", "limiter_refused"}
\* the limiter after a step that called record_request n times: n more requests today
RecordedTimes(n) == rl.daily_requests = lastCloud.pre_rl.daily_requests + n
\* the limiter after an admission step that recorded nothing: untouched, or only
\* inspected by can_proceed
OnlyInspected ==
    rl \in {lastCloud.pre_rl,
            CanProceedRL(lastCloud.pre_rl, lastCloud.at, EstimateOf(provider)).rl}

\* C12 as stated: a request that was sent records itself with the limiter exactly once
\* when its provider call ends, whether it succeeded or failed; a refused request
\* records nothing.
C12_RecordOncePerSent ==
    /\ lastCloud.step = "completion" => RecordedTimes(1)
    /\ (lastCloud.step = "admission" /\ lastCloud.verdict \in Refusals) => OnlyInspected

\* C12 amended: a sent request whose provider call succeeds calls record_request exactly
\* once, with the actual cost; a sent request whose provider call fails, and a request
\* refused at admission, call it zero times.
C12_RecordOnSuccessOnly ==
    /\ (lastCloud.step = "completion" /\ lastCloud.verdict = "success") =>
          /\ RecordedTimes(1)
          /\ rl.daily_cost - lastCloud.pre_rl.daily_cost \in CostsOf(provider)
    /\ (lastCloud.step = "completion" /\ lastCloud.verdict = "failed") =>
          rl = lastCloud.pre_rl
    /\ lastCloud.step = "admission" => OnlyInspected

\* C12 witness: a sent OpenRouter request failed and the limiter counts nothing for it
C12_Witness ==
    /\ lastCloud.step = "completion"
    /\ lastCloud.verdict = "failed"
    /\ provider = "openrouter"
    /\ RecordedTimes(0)

\* C15: a cloud attempt refused at admission, by the breaker or by the limiter, leaves
\* the breaker's state, failure_count and opened_at as they were.
C15_RefusalLeavesBreaker ==
    (lastCloud.step = "admission" /\ lastCloud.verdict \in Refusals) =>
        /\ cb.state = lastCloud.pre_cb.state
        /\ cb.failure_count = lastCloud.pre_cb.failure_count
        /\ cb.opened_at = lastCloud.pre_cb.opened_at

\* C19: a failed provider call adds exactly one to the breaker's failure_count and
\* leaves the limiter as it was, for the OpenRouter and the mock provider alike.
C19_FailureCountsOnce ==
    (lastCloud.step = "completion" /\ lastCloud.verdict = "failed") =>
        /\ cb.failure_count = lastCloud.pre_cb.failure_count + 1
        /\ rl = lastCloud.pre_rl

(***************************************************************************)
(* Job result slots (checked under SpecWorker)                             *)
(***************************************************************************)
\* C1: whenever a worker task has issued a BRPOP after handling a job, it has written
\* exactly one terminal result slot (completed or failed) for that job, whatever the
\* payload and whichever processing step failed.
C1_SlotBeforeNextDequeue ==
    \A w \in Procs :
        (worker[w].pc = "brpop" /\ worker[w].last.job_id /= None) =>
            /\ worker[w].last.writes = 1
            /\ slots[worker[w].last.job_id].status \in {"completed", "failed"}

\* whether a stored record carries a caption: the text pieces of an edge hint, or the
\* caption string of a model or of the cache
HasCaption(rec) == IF rec.origin = "edge" THEN rec.caption /= <<>> ELSE rec.caption /= ""

\* C14: when the router selects cloud and the cloud attempt is refused at admission
\* (breaker open, or limiter budget or rate), a job whose other steps all do their work
\* completes with the local model's caption and origin local.
C14_RefusedCloudFallsBack ==
    \A w \in Procs :
        LET h == worker[w].last IN
        (h.tier = "cloud" /\ h.cloud \in Refusals /\ h.clean) =>
            /\ slots[h.job_id].status = "completed"
            /\ slots[h.job_id].caption = LocalCaption.text
            /\ slots[h.job_id].origin = "local"

\* C16: every completed job slot and every upserted row carries a non-empty caption.
C16_CaptionNeverEmpty ==
    /\ \A j \in JobIds : slots[j].status = "completed" => HasCaption(slots[j])
    /\ \A i \in Images : rows[i].present => HasCaption(rows[i].rec)

(***************************************************************************)
(* Caption request claims (checked under SpecIngest)                       *)
(***************************************************************************)
\* every tier of the request failed: the local model raised and each cloud attempt
\* returned no caption, which leaves the captioner's placeholder as the result
EveryTierFailed ==
    /\ ingested.result.origin = "local"
    /\ ingested.result.caption = MockCaption

\* C17: when every tier fails, the request ends with an error and no caption is
\* persisted for it.
C17_AllTiersFailedIsError ==
    (ingested.pc = "done" /\ EveryTierFailed) =>
        /\ ingested.status = "error"
        /\ ~ingested.persisted

\* C18: within one caption request the local model is invoked at most once and the cloud
\* provider at most once.
C18_EachTierOnce ==
    /\ ingested.local_calls <= 1
    /\ ingested.cloud_calls <= 1

(***************************************************************************)
(* Cache tier (checked under SpecIngest)                                   *)
(***************************************************************************)
\* the request being handled has been routed, and the lookup found an entry
IngestedOnHit == ingested.pc \in {"cloud", "persist", "done"} /\ ingested.raw /= NoValue

\* C2: when the cache holds an entry for the image, the decision is tier cache, reason
\* cache_hit, with an empty fallback chain and the stored record in its metadata,
\* whatever the hint, confidence and budget; and the caption, confidence and origin
\* returned for the request are those of the stored record.
C2_CacheHit ==
    IngestedOnHit =>
        /\ ingested.decision.tier = "cache"
        /\ ingested.decision.reason = "cache_hit"
        /\ ingested.decision.fallback_chain = <<>>
        /\ ingested.decision.cached_result.hit
        /\ ingested.decision.cached_result.rec \in StoredRecords
        /\ JsonDumps(ingested.decision.cached_result.rec) = ingested.raw
        /\ ingested.status = "ok" =>
              JsonDumps(ingested.result) = ingested.raw

\* C2 witness: a request whose hint alone would have been accepted as edge found a
\* cache entry and returned it
C2_Witness ==
    /\ IngestedOnHit
    /\ ingested.status = "ok"
    /\ ingested.hint = Hint(<<"dog">>)
    /\ ingested.conf = 100
    /\ ingested.result.origin = "cloud"
    /\ ingested.result.caption \in CloudCaptions

(***************************************************************************)
(* Router claims (checked under SpecRoute)                                 *)
(***************************************************************************)
\* the last route call found no cache entry
RoutedOnMiss == routed.called /\ ~routed.raised /\ ~routed.cached.hit
\* the edge-acceptance condition as the claims state it
EdgeApplies ==
    /\ HintTruthy(routed.hint)
    /\ routed.conf /= None
    /\ routed.conf > EdgeConfThreshold
    /\ Classify(routed.hint.text).level = "simple"
\* the complexity score the router works with: the classifier's score of a non-empty
\* hint, 1.0 when there is none
EffectiveScore ==
    IF HintTruthy(routed.hint) THEN Classify(routed.hint.text).score ELSE 10

\* C3: on a cache miss the decision is edge (edge_accepted, fallback [local]) exactly
\* when a non-empty hint is given with confidence > 0.8 and classified simple.
C3_EdgeIff ==
    RoutedOnMiss =>
        /\ (routed.decision.tier = "edge") <=> EdgeApplies
        /\ routed.decision.tier = "edge" =>
              /\ routed.decision.reason = "edge_accepted"
              /\ routed.decision.fallback_chain = <<"local">>

\* C3 witness: a simple hint with confidence 0.81 was accepted as edge
C3_Witness ==
    /\ RoutedOnMiss
    /\ routed.conf = EdgeConfThreshold + 1
    /\ routed.decision.tier = "edge"

C21_StoreErrorContained ==
    routed.called =>
        /\ ~routed.raised
        /\ routed.decision /= NoDecision

(***************************************************************************)
(* What is written to the caption cache                                    *)
(***************************************************************************)
\* a step of ingest_image's cloud branch in which caption_cloud returned a caption
CloudBranchSucceeded ==
    /\ ingested.pc = "cloud"
    /\ ingested.decision.tier = "cloud"
    /\ ingested'.pc = "persist"
    /\ ingested'.result.origin = "cloud"
    /\ ingested'.cloud_calls = ingested.cloud_calls + 1

\* C22: every entry written to the caption cache is the caption a successful cloud call
\* returned for the same image: the cache only holds cloud records, and a key is only
\* written in the cloud branch of a request for that image, with the caption that call
\* returned; requests served by the edge, local or cache tier write nothing.
C22_OnlyCloudSuccessCached ==
    /\ [](\A i \in Images :
             cache[i] /= NoValue => JsonLoads(cache[i]) \in StoredRecords)
    /\ [][\A i \in Images :
             (cache'[i] /= cache[i] /\ cache'[i] /= NoValue) =>
                 /\ CloudBranchSucceeded
                 /\ i = ingested.img
                 /\ JsonLoads(cache'[i]).caption = ingested'.result.caption]_vars

\* C22 witness: a request routed to cloud got a caption, and the cache holds it under
\* the request's image
C22_Witness ==
    /\ ingested.pc = "persist"
    /\ ingested.decision.tier = "cloud"
    /\ ingested.result.origin = "cloud"
    /\ cache[ingested.img] /= NoValue
    /\ JsonLoads(cache[ingested.img]).caption = ingested.result.caption

\* C23: every successful cloud caption is in the cache under its image's key before the
\* request that obtained it finishes; here for the ingestion worker: when process_job
\* ends for a job whose cloud tier returned a caption, the cache holds an entry for the
\* job's image.
C23_CloudSuccessCached ==
    [][\A w \in Procs :
          (/\ worker[w].pc = "process"
           /\ worker'[w].pc = "loop"
           /\ worker'[w].last.tier = "cloud"
           /\ worker'[w].last.cloud = "success") =>
              cache'[worker[w].job.img] /= NoValue]_vars

(***************************************************************************)
(* The router's decision as a function of its inputs (SpecRoutePair)       *)
(***************************************************************************)
\* a call has returned on a cache miss, and so has the remembered earlier call, given
\* the same text_hint, client_confidence and latency_budget_ms
SameInputsOnMiss ==
    /\ earlier.call.called
    /\ routed.called /\ ~routed.raised
    /\ ~earlier.call.cached.hit
    /\ ~routed.cached.hit
    /\ earlier.call.hint = routed.hint
    /\ earlier.call.conf = routed.conf
    /\ earlier.call.budget = routed.budget

C25_RaisedJobEndsFailed ==
    \A w \in Procs :
        (/\ worker[w].pc /= "process"
         /\ worker[w].last.job_id /= None
         /\ slots[worker[w].last.job_id].status /= "completed") =>
            /\ slots[worker[w].last.job_id].status = "failed"
            /\ \A i \in 1..Len(queue) : queue[i].job_id /= worker[w].last.job_id
            /\ \A v \in Procs \ {w} :
                  worker[v].pc = "process" =>
                      worker[v].job.job_id /= worker[w].last.job_id

\* C26: jobs leave the queue in the order they were enqueued (job ids count the
\* enqueues), whatever their priority, and BRPOP hands each job to one worker task
\* only: no id is handed out twice and no two tasks hold the same job.
C26_FifoAndAtMostOnce ==
    /\ \A i \in 1..Len(handed) : handed[i] = i
    /\ \A v, w \in Procs :
          (v /= w /\ worker[v].pc = "process" /\ worker[w].pc = "process") =>
              worker[v].job.job_id /= worker[w].job.job_id

\* C26 witness: a low-priority job enqueued first and a high-priority job enqueued
\* second have been handed out in that order, to two tasks that popped together
C26_Witness ==
    /\ handed = <<1, 2>>
    /\ \E v, w \in Procs :
          /\ worker[v].pc = "process" /\ worker[v].job.job_id = 1
          /\ worker[v].job.priority = "low"
          /\ worker[w].pc = "process" /\ worker[w].job.job_id = 2
          /\ worker[w].job.priority = "high"

\* C27: after stop() has cleared running, a task whose process_job is under way ends
\* that job with a terminal result slot written, an exited task has a terminal slot
\* for the job it handled last, and a task that has tested `while self.running` and
\* found it false issues no further BRPOP.
C27_StopFinishesCurrentJob ==
    /\ [][\A w \in Procs :
             (~running /\ worker[w].pc = "process" /\ worker'[w].pc /= "process") =>
                 slots'[worker[w].job.job_id].status \in {"completed", "failed"}]_vars
    /\ [](\A w \in Procs :
             (worker[w].pc = "exited" /\ worker[w].last.job_id /= None) =>
                 slots[worker[w].last.job_id].status \in {"completed", "failed"})
    /\ [][\A w \in Procs :
             worker[w].pc = "exited" => worker'[w].pc = "exited"]_vars

(***************************************************************************)
(* Shutdown of the worker pool (SpecLoopFair)                              *)
(***************************************************************************)
\* C28: once stop() has cleared running, start eventually closes the Redis connection
\* and returns, and it does so only when every worker task's loop has ended.
C28_StopTerminates ==
    /\ ~running ~> closed
    /\ [](closed => \A w \in Procs : worker[w].pc = "exited")

\* C28 witness: start has returned after stop, with a job handled and a job left on
\* the queue
C28_Witness ==
    /\ closed
    /\ ~running
    /\ \E w \in Procs : worker[w].last.job_id /= None
    /\ queue /= <<>>

(***************************************************************************)
(* Search tenancy (SpecSearch)                                             *)
(***************************************************************************)
\* the scope a request asked for, with the default filled in
ScopeOf(asked) == IF asked = NoScope THEN "all" ELSE asked

\* C29: whoever the caller and whatever the store holds, every row a search returns
\* has deleted_at null and meets the scope's rule: public, a public or public_admin
\* row; mine, a row the caller owns; all, a row the caller owns or a public or
\* public_admin row; in the pgvector and in the Qdrant store, for users and admins.
C29_ResultsObeyScope ==
    \A r \in found.results :
        /\ ~r.deleted
        /\ ScopeOf(found.asked) = "public" => IsPublic(r)
        /\ ScopeOf(found.asked) = "mine" => r.owner = found.caller.id
        /\ ScopeOf(found.asked) = "all" => (r.owner = found.caller.id \/ IsPublic(r))

\* C29 witness: an admin's search with scope all returned a public row of another
\* owner while a private row of another user was in the store
C29_Witness ==
    /\ found.status = 200
    /\ found.caller.role = "admin"
    /\ ScopeOf(found.asked) = "all"
    /\ \E r \in found.results : r.owner /= found.caller.id /\ IsPublic(r)
    /\ \E i \in Images :
          docs[i].present /\ docs[i].visibility = "private"
              /\ docs[i].owner \notin {found.caller.id, NoOwner}

\* C30: a search by an unauthenticated caller with scope mine or all, the default
\* scope included, is answered 401 with no query embedded and no store query made;
\* an anonymous search is served only with scope public.
C30_AnonymousNeedsPublicScope ==
    (found /= NoSearch /\ found.caller = NoUser) =>
        /\ ScopeOf(found.asked) \in {"all", "mine"} =>
              /\ found.status = 401
              /\ ~found.embedded
              /\ ~found.queried
              /\ found.results = {}
        /\ found.status = 200 => found.asked = "public"

\* C30 witness: an anonymous search without ?scope was answered 401 while the store
\* held a public row
C30_Witness ==
    /\ found.caller = NoUser
    /\ found.asked = NoScope
    /\ found.status = 401
    /\ \E i \in Images : docs[i].present /\ IsPublic(docs[i]) /\ ~docs[i].deleted

(***************************************************************************)
(* Image endpoint claims (checked under SpecImages)                        *)
(***************************************************************************)
\* C31: once DELETE /images/{id} has succeeded, and until the same bytes are upserted
\* again, every request that begins afterwards leaves the image out: GET, download and
\* thumbnail answer 404 to every caller, a DELETE by an authenticated caller answers
\* 404, and neither a listing nor a search in any scope returns it.
C31_DeletedStaysHidden ==
    [][(answered = NoAnswer /\ answered' /= NoAnswer) =>
          /\ removed \cap answered'.ids = {}
          /\ (answered'.img \in removed
              /\ answered'.op \in {"get", "download", "thumbnail"}) =>
                answered'.status = 404
          /\ (answered'.img \in removed /\ answered'.op = "delete"
              /\ answered'.caller /= NoUser) =>
                answered'.status = 404]_vars

\* a GET by the owner of an image whose DELETE succeeded earlier is being answered
C31_Witness ==
    /\ answered.op = "get"
    /\ answered.img \in removed
    /\ docs[answered.img].owner = answered.caller.id
    /\ answered.status = 404

C39_UploadKeepsOwnerAndVisibility ==
    [][(/\ answered = NoAnswer
        /\ answered'.op \in {"post", "job"}
        /\ docs[answered'.img].present
        /\ docs[answered'.img].owner /= answered'.caller.id) =>
          /\ docs'[answered'.img].owner = docs[answered'.img].owner
          /\ docs'[answered'.img].visibility = docs[answered'.img].visibility]_vars

\* C40: when POST /images has answered 200 to a user, GET /images/{id} by that user
\* for the id it returned answers 200, whatever happened to that id before.
C40_UploadedImageReadable ==
    (answered.op = "post" /\ answered.status = 200) =>
        AccessStatus(docs, answered.img, answered.caller) = 200

(***************************************************************************)
(* Classifier claim (checked under SpecClassify)                           *)
(***************************************************************************)
\* the ordered rule list, first match wins: empty or whitespace only; an abstract
\* indicator among the lowercased tokens; at most ShortTokenCount tokens; otherwise
OrderedRules(text) ==
    IF \A i \in 1..Len(text) : text[i] = Space THEN [level |-> "simple", score |-> 0]
    ELSE IF \E i \in 1..Len(Tokens(text)) : IsAbstract(Tokens(text)[i])
    THEN [level |-> "complex", score |-> 8]
    ELSE IF Len(Tokens(text)) <= ShortTokenCount THEN [level |-> "simple", score |-> 2]
    ELSE [level |-> "moderate", score |-> 5]

\* C33: classify(text) is what the ordered rule list gives for every text: (simple,
\* 0.0) for an empty or whitespace-only text, else (complex, 0.8) with an abstract
\* indicator among the tokens, else (simple, 0.2) with at most 5 tokens, else
\* (moderate, 0.5).
C33_ClassifyFollowsRules ==
    classified.called =>
        /\ classified.level = OrderedRules(classified.text).level
        /\ classified.score = OrderedRules(classified.text).score

(***************************************************************************)
(* The OPEN breaker (checked under SpecBreaker)                            *)
(***************************************************************************)
\* C34: while the breaker is OPEN, a record_success or record_failure call changes
\* neither state, failure_count nor opened_at, and the breaker leaves OPEN only in a
\* can_proceed call made TimeoutSeconds or more after opened_at, or in reset().
C34_OpenIgnoresOutcomes ==
    [][cb.state = OPEN =>
          /\ lastCall'.op \in {"record_success", "record_failure"} =>
                /\ cb'.state = OPEN
                /\ cb'.failure_count = cb.failure_count
                /\ cb'.opened_at = cb.opened_at
          /\ cb'.state /= OPEN =>
                \/ lastCall'.op = "reset"
                \/ /\ lastCall'.op = "can_proceed"
                   /\ lastCall'.at - cb.opened_at >= TimeoutSeconds]_vars

\* a record_failure has found the breaker OPEN, some time after it opened
C34_Witness ==
    /\ lastCall.op = "record_failure"
    /\ lastCall.pre.state = OPEN
    /\ lastCall.at > lastCall.pre.opened_at
    /\ cb = lastCall.pre

(***************************************************************************)
(* Half-open probes (checked under SpecProbeFair)                          *)
(***************************************************************************)
\* C35: whenever the breaker is HALF_OPEN it later is CLOSED or OPEN: every cloud
\* attempt admitted in HALF_OPEN ends in record_success or record_failure.
C35_HalfOpenResolves == (cb.state = HALF_OPEN) ~> (cb.state \in {CLOSED, OPEN})

\* the breaker is HALF_OPEN, its probe is used up and the probe's call is in flight
C35_Witness ==
    /\ cb.state = HALF_OPEN
    /\ cb.half_open_calls >= HalfOpenMaxCalls
    /\ \E p \in Procs : call[p] = "inflight"

(***************************************************************************)
(* Cache and edge tiers in the synchronous path (checked under SpecIngest) *)
(***************************************************************************)
\* C36: a request that routing sends to the cache tier or the edge tier is completed
\* without an invocation of the local model or of the cloud provider.
C36_CacheAndEdgeInvokeNothing ==
    (/\ ingested.pc \in {"persist", "done"}
     /\ ingested.decision.tier \in {"cache", "edge"}) =>
        /\ ingested.local_calls = 0
        /\ ingested.cloud_calls = 0

(***************************************************************************)
(* Draining the queue (checked under SpecDrainFair)                        *)
(***************************************************************************)
\* the job's result slot holds completed or failed
Terminal(j) == slots[j].status \in {"completed", "failed"}
\* the job is in the list
Queued(j) == \E i \in 1..Len(queue) : queue[i].job_id = j

\* C37: with Redis reachable, the worker running and its tasks scheduled fairly, every
\* job pushed onto the queue is dequeued and gets a terminal result slot, and a job
\* that was popped is held by a task until its slot is written.
C37_EveryJobEnds ==
    /\ [](\A j \in JobIds :
            j <= nextJob =>
               \/ Queued(j)
               \/ \E w \in Procs : worker[w].pc = "process" /\ worker[w].job.job_id = j
               \/ Terminal(j))
    /\ \A j \in JobIds : (j <= nextJob) ~> (~Queued(j) /\ Terminal(j))

\* every job of the run was enqueued; the first was popped while the second waited,
\* and ended failed, and the second ended completed
C37_Witness ==
    /\ nextJob = MaxJobs
    /\ handed /= <<>>
    /\ handed[1] = 1
    /\ slots[1].status = "failed"
    /\ slots[nextJob].status = "completed"
    /\ queue = <<>>

(***************************************************************************)
(* Polling a job (checked under SpecPoll)                                  *)
(***************************************************************************)
\* C38 as stated: once a poll of a job has reported completed or failed, every later
\* poll of that job reports the same status.
C38_PollMonotone ==
    [][\A j \in JobIds :
          polled[j].last \in {"completed", "failed"} =>
             polled'[j].last = polled[j].last]_vars

\* C38 as amended: the same, as long as the job's result slot has not expired; a poll
\* after the slot expired reports processing.
C38_PollMonotoneUntilExpiry ==
    [][\A j \in JobIds :
          /\ (polled[j].last \in {"completed", "failed"} /\ ~polled'[j].expired) =>
                polled'[j].last = polled[j].last
          /\ (polled[j].expired /\ polled'[j].last /= polled[j].last) =>
                polled'[j].last = "processing"]_vars

\* a poll reported a job failed, its slot is still there, and a later job was enqueued
C38_Witness ==
    \E j \in JobIds :
       /\ polled[j].last = "failed"
       /\ ~polled[j].expired
       /\ slots[j] /= NoSlot
       /\ nextJob > j

====
